---- MODULE Spec2Model ----
(***************************************************************************)
(* mcp-goals: the workspace registry (WorkspaceManager, src/src/           *)
(* workspace.ts) and the per-workspace goal store (GoalManager,            *)
(* src/unnamed/part_001 and src/src/goals.ts) as state machines over the   *)
(* files they persist.                                                     *)
(*                                                                         *)
(* Time is the millisecond instant returned by new Date(); an ISO-8601     *)
(* string produced by toISOString() is represented by that instant (the    *)
(* text is a fixed-width rendering of it, so string order and              *)
(* new Date(text).getTime() order coincide).                               *)
(***************************************************************************)
EXTENDS Integers, Sequences, FiniteSets, TLC

\* ---------------------------------------------------------------- bounds
\* Largest value of the wall clock.
MaxClock == 2
\* Largest number of writeFile calls on one persisted JSON file.
MaxWrites == 4

\* Longest plan document handed to getGoalDescription.
MaxPlanLen == 8
MaxInFlight == 2

\* ---------------------------------------------------------------- inputs
\* Workspace names and paths handed to createWorkspace / updateLastActive.
WsNames == {"w1", "w2", "w3"}
WsPaths == {"/p1", "/p2"}
\* Goal names: filesystem-safe single path segments.
GoalNames == {"a", "b"}
\* Plan documents, as sequences of characters; the empty plan is included.
PlanTexts == {<<>>, <<"#", " ", "T", "\n", "\n", "d">>}

VARIABLES
  now,          \* the wall clock (new Date())
  \* --- registry store directory and WorkspaceManager instance
  storeDir,     \* TRUE iff the store directory exists
  wsFile,       \* workspaces.json: <<>> when missing, else <<text>>
  wsWrites,     \* number of writeFile calls on workspaces.json so far
  workspaces,   \* WorkspaceManager.workspaces (in memory)
  wmInited,     \* TRUE once init() of the current instance has completed
  activeWorkspace, \* the workspace activated last on this instance, or <<>>
  \* --- one workspace's .goals hierarchy and GoalManager instance
  fs,           \* the hierarchy under <workspace>/.goals
  stateWrites,  \* number of writeFile calls on state.json so far
  gmState,      \* GoalManager.state (in memory)
  gmInited,     \* TRUE once init() of the current instance has completed
  \* --- the .goals hierarchies the server's tools work on
  wsFs,         \* for every workspace path, the hierarchy under <path>/.goals
  \* --- a second process and calls in flight
  peer,         \* the WorkspaceManager instance of a second process
  inflight,     \* the createGoal calls that have started, by call number
  \* --- the early goals server and work the event loop has pending
  earlyGoals,   \* the Map `goals` of the current early server instance
  initCall,     \* the init() call that main() started and did not await
  writes,       \* the writeFile calls on workspaces.json still in flight
  \* --- observation
  last          \* the call made by the latest step and what it returned

regVars ==
  <<storeDir, wsFile, wsWrites, workspaces, wmInited, activeWorkspace>>
goalVars == <<fs, stateWrites, gmState, gmInited>>
srvVars == <<wsFs>>
asyncVars == <<peer, inflight>>
bgVars == <<earlyGoals, initCall, writes>>
vars == <<now, last, regVars, goalVars, srvVars, asyncVars, bgVars>>

\* ------------------------------------------------------------ pure parts

\* interface Workspace { name; path; last_active }
Workspace(name, path, t) == [name |-> name, path |-> path, last_active |-> t]

\* Variant of StringifyStore that loses last_active (writes the epoch).
StringifyStoreNoTime(ws) ==
  [i \in 1..Len(ws) |-> <<ws[i].name, ws[i].path, 0>>]

\* JSON.stringify(store, null, 2) of { workspaces: [...] }: the text keeps,
\* for every element in order, its three members name, path, last_active.
StringifyStore(ws) ==
  [i \in 1..Len(ws) |-> <<ws[i].name, ws[i].path, ws[i].last_active>>]

\* JSON.parse(data).workspaces
ParseStore(text) ==
  [i \in 1..Len(text) |->
     [name |-> text[i][1], path |-> text[i][2], last_active |-> text[i][3]]]

\* Variant of InsertDesc that puts an element before its equals.
RECURSIVE InsertDescUnstable(_, _)
InsertDescUnstable(w, s) ==
  IF s = <<>> THEN <<w>>
  ELSE IF w.last_active - Head(s).last_active >= 0
       THEN <<w>> \o s
       ELSE <<Head(s)>> \o InsertDescUnstable(w, Tail(s))

\* Array.prototype.sort with the comparator of getAll,
\*   (a, b) => getTime(b.last_active) - getTime(a.last_active);
\* the sort is stable: an element is inserted after every element that
\* does not compare greater than it.
RECURSIVE InsertDesc(_, _)
InsertDesc(w, s) ==
  IF s = <<>> THEN <<w>>
  ELSE IF w.last_active - Head(s).last_active > 0
       THEN <<w>> \o s
       ELSE <<Head(s)>> \o InsertDesc(w, Tail(s))

RECURSIVE SortDesc(_)
SortDesc(s) ==
  IF s = <<>> THEN <<>>
  ELSE InsertDesc(s[Len(s)], SortDesc(SubSeq(s, 1, Len(s) - 1)))

\* getAll(): a sorted copy of this.workspaces
\* getAll() with the comparator's operands exchanged: oldest first.
GetAllAscending(ws) ==
  [i \in 1..Len(ws) |-> SortDesc(ws)[Len(ws) + 1 - i]]

GetAll(ws) == SortDesc(ws)

\* this.workspaces.some((w) => w.name === name)
HasWorkspace(ws, name) == \E i \in 1..Len(ws) : ws[i].name = name

\* this.workspaces.find((w) => w.name === name): index of the first match
FindWorkspace(ws, name) ==
  CHOOSE i \in 1..Len(ws) :
    /\ ws[i].name = name
    /\ \A j \in 1..(i - 1) : ws[j].name # name

\* The value getActiveWorkspace() returns once workspace w has been
\* activated by create or touch (none is <<>>).
Activated(w) == <<w>>

\* getActiveWorkspace()
GetActiveWorkspace(active) == active

\* The instance of a second process before its construction.
NoPeer == [workspaces |-> <<>>, inited |-> FALSE]

\* The ids and descriptions given to the early server's add-goal tool.
EarlyIds == {"g1", "g2", "g3"}
EarlyDescriptions == {"", "d1", "d2"}

\* new Map<string, string>(): no id has an entry.  An entry is <<text>>.
NewGoalsMap == [id \in EarlyIds |-> <<>>]

\* No init() is pending: either none was started without await, or it
\* has settled.
NoInitCall == [pc |-> "none"]

\* No call was made by the latest step.
NoCall == [op |-> "none", res |-> "none"]

\* ------------------------------------------------------------ the clock
Tick ==
  /\ now < MaxClock
  /\ now' = now + 1
  /\ last' = NoCall
  /\ UNCHANGED <<regVars, goalVars, srvVars, asyncVars, bgVars>>

\* ------------------------------------------------------- WorkspaceManager
\* Every caller awaits init() of a new instance before its first call
\* (workspace.ts:120-121, 197-198, 233-234), so the calls below are taken
\* on an initialised instance.

\* new WorkspaceManager(storeDir): a fresh instance on the same store
\* (a restart of the process).
WmNew ==
  /\ workspaces' = <<>>
  /\ wmInited' = FALSE
  /\ activeWorkspace' = <<>>
  /\ last' = NoCall
  /\ UNCHANGED <<now, storeDir, wsFile, wsWrites, goalVars, srvVars, asyncVars, bgVars>>

\* What loadWorkspaces() leaves in this.workspaces for a given file: the
\* parsed list, or [] on ENOENT.
LoadWorkspaces(file) ==
  IF file = <<>> THEN <<>> ELSE ParseStore(file[1])

\* A stored file <<text, "garbled">> holds text followed by bytes that end
\* the JSON document early: JSON.parse throws on it.
Malformed(file) == Len(file) = 2

\* init(): ensureDirectoryExists(), then loadWorkspaces(), which on ENOENT
\* also calls saveWorkspaces().  This is the run in which readFile and
\* JSON.parse succeed or the file is missing.
WmInit ==
  /\ ~Malformed(wsFile)
  /\ storeDir' = TRUE
  /\ workspaces' = LoadWorkspaces(wsFile)
  /\ IF wsFile = <<>>
     THEN /\ wsWrites < MaxWrites
          /\ wsFile' = <<StringifyStore(workspaces')>>
          /\ wsWrites' = wsWrites + 1
     ELSE UNCHANGED <<wsFile, wsWrites>>
  /\ wmInited' = TRUE
  /\ last' = [op |-> "init", name |-> "", res |-> "ok"]
  /\ UNCHANGED <<now, activeWorkspace, goalVars, srvVars, asyncVars, bgVars>>

\* The file is damaged outside the program (a truncated copy, a hand edit).
GarbleStore ==
  /\ wsFile # <<>>
  /\ ~Malformed(wsFile)
  /\ wsFile' = <<wsFile[1], "garbled">>
  /\ last' = NoCall
  /\ UNCHANGED <<now, storeDir, wsWrites, workspaces, wmInited,
                 activeWorkspace, goalVars, srvVars, asyncVars, bgVars>>

\* init() with a catch that does not test error.code: every load failure
\* is treated as a missing file.
WmInitMalformedRecovers ==
  /\ Malformed(wsFile)
  /\ wsWrites < MaxWrites
  /\ storeDir' = TRUE
  /\ workspaces' = <<>>
  /\ wsFile' = <<StringifyStore(workspaces')>>
  /\ wsWrites' = wsWrites + 1
  /\ wmInited' = TRUE
  /\ last' = [op |-> "init", name |-> "", res |-> "ok"]
  /\ UNCHANGED <<now, activeWorkspace, goalVars, srvVars, asyncVars, bgVars>>

\* init() on a malformed file: JSON.parse throws a SyntaxError, whose code
\* is not ENOENT, so loadWorkspaces() rethrows it before any assignment
\* and before saveWorkspaces().
WmInitMalformed ==
  /\ Malformed(wsFile)
  /\ storeDir' = TRUE
  /\ last' = [op |-> "init", name |-> "", res |-> "SyntaxError"]
  /\ UNCHANGED <<now, wsFile, wsWrites, workspaces, wmInited,
                 activeWorkspace, goalVars, srvVars, asyncVars, bgVars>>

\* init() on a file that exists and cannot be read: readFile rejects with
\* EACCES, which loadWorkspaces() rethrows.
WmInitUnreadable ==
  /\ wsFile # <<>>
  /\ storeDir' = TRUE
  /\ last' = [op |-> "init", name |-> "", res |-> "EACCES"]
  /\ UNCHANGED <<now, wsFile, wsWrites, workspaces, wmInited,
                 activeWorkspace, goalVars, srvVars, asyncVars, bgVars>>

\* createWorkspace(name, path) on a registered name: throws before any
\* assignment.
CreateWorkspaceDup(name, path) ==
  /\ wmInited
  /\ HasWorkspace(workspaces, name)
  /\ last' = [op |-> "createWorkspace", name |-> name, path |-> path,
              res |-> "AlreadyExists"]
  /\ UNCHANGED <<now, storeDir, wsFile, wsWrites, workspaces, wmInited,
                 activeWorkspace, goalVars, srvVars, asyncVars, bgVars>>

\* createWorkspace with saveWorkspaces() called before the push: the
\* file misses the new workspace.
CreateWorkspaceSavesFirst(name, path) ==
  /\ wmInited
  /\ ~HasWorkspace(workspaces, name)
  /\ wsWrites < MaxWrites
  /\ wsFile' = <<StringifyStore(workspaces)>>
  /\ workspaces' = Append(workspaces, Workspace(name, path, now))
  /\ wsWrites' = wsWrites + 1
  /\ last' = [op |-> "createWorkspace", name |-> name, path |-> path,
              res |-> "ok", ret |-> workspaces'[Len(workspaces')]]
  /\ activeWorkspace' = Activated(last'.ret)
  /\ UNCHANGED <<now, storeDir, wmInited, goalVars, srvVars, asyncVars, bgVars>>

\* createWorkspace(name, path) otherwise: push, saveWorkspaces(), return
\* the pushed object.
CreateWorkspaceOk(name, path) ==
  /\ wmInited
  /\ ~HasWorkspace(workspaces, name)
  /\ wsWrites < MaxWrites
  /\ workspaces' = Append(workspaces, Workspace(name, path, now))
  /\ wsFile' = <<StringifyStore(workspaces')>>
  /\ wsWrites' = wsWrites + 1
  /\ last' = [op |-> "createWorkspace", name |-> name, path |-> path,
              res |-> "ok", ret |-> workspaces'[Len(workspaces')]]
  /\ activeWorkspace' = Activated(last'.ret)
  /\ UNCHANGED <<now, storeDir, wmInited, goalVars, srvVars, asyncVars, bgVars>>

\* Variant of createWorkspace without the duplicate-name test.
CreateWorkspaceNoCheck(name, path) ==
  /\ wmInited
  /\ wsWrites < MaxWrites
  /\ workspaces' = Append(workspaces, Workspace(name, path, now))
  /\ wsFile' = <<StringifyStore(workspaces')>>
  /\ wsWrites' = wsWrites + 1
  /\ last' = [op |-> "createWorkspace", name |-> name, path |-> path,
              res |-> "ok", ret |-> workspaces'[Len(workspaces')]]
  /\ activeWorkspace' = Activated(last'.ret)
  /\ UNCHANGED <<now, storeDir, wmInited, goalVars, srvVars, asyncVars, bgVars>>

\* createWorkspace(name, path)
CreateWorkspace(name, path) ==
  \/ CreateWorkspaceDup(name, path)
  \/ CreateWorkspaceOk(name, path)

\* Variant of the failing updateLastActive that still rewrites the file.
UpdateLastActiveMissingSaves(name) ==
  /\ wmInited
  /\ ~HasWorkspace(workspaces, name)
  /\ wsWrites < MaxWrites
  /\ wsFile' = <<StringifyStore(workspaces)>>
  /\ wsWrites' = wsWrites + 1
  /\ last' = [op |-> "updateLastActive", name |-> name, res |-> "NotFound"]
  /\ UNCHANGED <<now, storeDir, workspaces, wmInited, activeWorkspace,
                 goalVars, srvVars, asyncVars, bgVars>>

\* updateLastActive(name) on an unregistered name: throws before any
\* assignment.
UpdateLastActiveMissing(name) ==
  /\ wmInited
  /\ ~HasWorkspace(workspaces, name)
  /\ last' = [op |-> "updateLastActive", name |-> name, res |-> "NotFound"]
  /\ UNCHANGED <<now, storeDir, wsFile, wsWrites, workspaces, wmInited,
                 activeWorkspace, goalVars, srvVars, asyncVars, bgVars>>

\* Variant of updateLastActive that re-registers the workspace at the end
\* of the list instead of assigning in place.
UpdateLastActiveMoves(name) ==
  /\ wmInited
  /\ HasWorkspace(workspaces, name)
  /\ wsWrites < MaxWrites
  /\ LET i == FindWorkspace(workspaces, name) IN
       /\ workspaces' =
            Append(SubSeq(workspaces, 1, i - 1)
                     \o SubSeq(workspaces, i + 1, Len(workspaces)),
                   [workspaces[i] EXCEPT !.last_active = now])
       /\ last' = [op |-> "updateLastActive", name |-> name, res |-> "ok",
                   ret |-> workspaces'[Len(workspaces')]]
  /\ wsFile' = <<StringifyStore(workspaces')>>
  /\ wsWrites' = wsWrites + 1
  /\ activeWorkspace' = Activated(last'.ret)
  /\ UNCHANGED <<now, storeDir, wmInited, goalVars, srvVars, asyncVars, bgVars>>

\* updateLastActive(name) otherwise: assign last_active of the found
\* element in place, saveWorkspaces(), return that element.
UpdateLastActiveOk(name) ==
  /\ wmInited
  /\ HasWorkspace(workspaces, name)
  /\ wsWrites < MaxWrites
  /\ LET i == FindWorkspace(workspaces, name) IN
       /\ workspaces' = [workspaces EXCEPT ![i].last_active = now]
       /\ last' = [op |-> "updateLastActive", name |-> name, res |-> "ok",
                     ret |-> workspaces'[i]]
  /\ wsFile' = <<StringifyStore(workspaces')>>
  /\ wsWrites' = wsWrites + 1
  /\ activeWorkspace' = Activated(last'.ret)
  /\ UNCHANGED <<now, storeDir, wmInited, goalVars, srvVars, asyncVars, bgVars>>

\* updateLastActive(name)
UpdateLastActive(name) ==
  \/ UpdateLastActiveMissing(name)
  \/ UpdateLastActiveOk(name)

\* The resource workspaces://list: getAll() read by a caller; it assigns
\* nothing.
ListWorkspaces ==
  /\ wmInited
  /\ last' = [op |-> "getAll", name |-> "", res |-> "ok",
                list |-> GetAll(workspaces)]
  /\ UNCHANGED <<now, storeDir, wsFile, wsWrites, workspaces, wmInited,
                 activeWorkspace, goalVars, srvVars, asyncVars, bgVars>>

\* ------------------------------------------ the process from its start
\* main() constructs the WorkspaceManager, calls init() without await,
\* creates the server and connects it.  init() runs up to its first
\* await inside that call; what follows each await runs when the awaited
\* operation has completed, and the server's handlers run in between.
\* initCall.pc is the operation init() awaits: "mkdir", "readFile",
\* "loaded" (readFile has settled with initCall.data, the continuation
\* has not run yet), "save", or "done", "failed", "stopped".

\* A process is running and takes requests.
Serving == initCall.pc \notin {"none", "stopped"}

\* main(): a new process on the store.
StartMain ==
  /\ initCall.pc \in {"none", "done", "failed", "stopped"}
  /\ workspaces' = <<>>
  /\ wmInited' = FALSE
  /\ activeWorkspace' = <<>>
  /\ initCall' = [pc |-> IF storeDir THEN "readFile" ELSE "mkdir"]
  /\ last' = [op |-> "main", res |-> "ok"]
  /\ UNCHANGED <<now, storeDir, wsFile, wsWrites, goalVars, srvVars,
                 asyncVars, earlyGoals, writes>>

\* ensureDirectoryExists(): the awaited mkdir completes; loadWorkspaces()
\* then issues readFile.
InitMkdir ==
  /\ initCall.pc = "mkdir"
  /\ storeDir' = TRUE
  /\ initCall' = [pc |-> "readFile"]
  /\ last' = [op |-> "initMkdir", res |-> "pending"]
  /\ UNCHANGED <<now, wsFile, wsWrites, workspaces, wmInited,
                 activeWorkspace, goalVars, srvVars, asyncVars, earlyGoals,
                 writes>>

\* The awaited readFile settles with what the file holds at that moment
\* (<<>>: it rejects with ENOENT).
InitReadFile ==
  /\ initCall.pc = "readFile"
  /\ initCall' = [pc |-> "loaded", data |-> wsFile]
  /\ last' = [op |-> "initReadFile", res |-> "pending"]
  /\ UNCHANGED <<now, regVars, goalVars, srvVars, asyncVars, earlyGoals,
                 writes>>

\* The rest of loadWorkspaces() after readFile: JSON.parse and the
\* assignment; on ENOENT the assignment of [] and the issue of
\* saveWorkspaces(); on any other error the rethrow.  Nothing awaits the
\* promise of init(), so the rejection is unhandled: the runtime either
\* ends the process or only reports it.
InitAssign ==
  /\ initCall.pc = "loaded"
  /\ IF initCall.data = <<>>
     THEN /\ workspaces' = <<>>
          /\ initCall' = [pc |-> "save", data |-> StringifyStore(<<>>)]
          /\ last' = [op |-> "initAssign", res |-> "pending"]
          /\ UNCHANGED wmInited
     ELSE IF Malformed(initCall.data)
     THEN /\ \E outcome \in {"failed", "stopped"} :
               initCall' = [pc |-> outcome]
          /\ last' = [op |-> "initAssign", res |-> "SyntaxError"]
          /\ UNCHANGED <<workspaces, wmInited>>
     ELSE /\ workspaces' = ParseStore(initCall.data[1])
          /\ initCall' = [pc |-> "done"]
          /\ wmInited' = TRUE
          /\ last' = [op |-> "initAssign", res |-> "ok"]
  /\ UNCHANGED <<now, storeDir, wsFile, wsWrites, activeWorkspace, goalVars,
                 srvVars, asyncVars, earlyGoals, writes>>

\* The writeFile of saveWorkspaces() that init() awaits completes.
InitSave ==
  /\ initCall.pc = "save"
  /\ wsWrites < MaxWrites
  /\ wsFile' = <<initCall.data>>
  /\ wsWrites' = wsWrites + 1
  /\ initCall' = [pc |-> "done"]
  /\ wmInited' = TRUE
  /\ last' = [op |-> "initSave", res |-> "ok"]
  /\ UNCHANGED <<now, storeDir, workspaces, activeWorkspace, goalVars,
                 srvVars, asyncVars, earlyGoals, writes>>

\* The create-workspace handler of the server: createWorkspace(name,
\* path) on the instance as it is when the request arrives.  writeFile
\* rejects with ENOENT while the store directory is missing, after the
\* push.
CreateWorkspaceHandler(name, path) ==
  /\ Serving
  /\ IF HasWorkspace(workspaces, name)
     THEN /\ last' = [op |-> "create-workspace", name |-> name,
                      res |-> "AlreadyExists"]
          /\ UNCHANGED <<workspaces, wsFile, wsWrites, activeWorkspace>>
     ELSE /\ workspaces' = Append(workspaces, Workspace(name, path, now))
          /\ IF storeDir
             THEN /\ wsWrites < MaxWrites
                  /\ wsFile' = <<StringifyStore(workspaces')>>
                  /\ wsWrites' = wsWrites + 1
                  /\ last' = [op |-> "create-workspace", name |-> name,
                              res |-> "ok"]
                  /\ activeWorkspace' =
                       Activated(workspaces'[Len(workspaces')])
             ELSE /\ last' = [op |-> "create-workspace", name |-> name,
                              res |-> "ENOENT"]
                  /\ UNCHANGED <<wsFile, wsWrites, activeWorkspace>>
  /\ UNCHANGED <<now, storeDir, wmInited, goalVars, srvVars, asyncVars,
                 bgVars>>

\* ------------------------------------------- writes that fail
\* The errors writeFile can reject with.
WriteErrors == {"ENOSPC", "EACCES"}

\* createWorkspace(name, path) when the writeFile of saveWorkspaces()
\* rejects: the push has been made, the await rethrows.  fault records
\* the error the storage raised.
CreateWorkspaceWriteFails(name, path, error) ==
  /\ wmInited
  /\ ~HasWorkspace(workspaces, name)
  /\ workspaces' = Append(workspaces, Workspace(name, path, now))
  /\ last' = [op |-> "createWorkspace", name |-> name, path |-> path,
              res |-> error, fault |-> error]
  /\ UNCHANGED <<now, storeDir, wsFile, wsWrites, wmInited,
                 activeWorkspace, goalVars, srvVars, asyncVars, bgVars>>

\* ------------------------------------- registry calls that overlap
\* A handler awaits createWorkspace or updateLastActive, and the event
\* loop takes the next request while the writeFile of saveWorkspaces() is
\* pending.  The call runs up to that await in one stretch: the test, the
\* change of this.workspaces and JSON.stringify of the list as it is
\* then.  writes holds the pending writeFile calls; overlap is TRUE for a
\* write that was pending together with another one.

AllOverlap(ws) == [k \in 1..Len(ws) |-> [ws[k] EXCEPT !.overlap = TRUE]]

IssueWrite(ws, text) ==
  IF ws = <<>> THEN <<[text |-> text, overlap |-> FALSE]>>
  ELSE Append(AllOverlap(ws), [text |-> text, overlap |-> TRUE])

\* createWorkspace(name, path) up to the await of writeFile.
CreateWorkspaceIssue(name, path) ==
  /\ wmInited
  /\ IF HasWorkspace(workspaces, name)
     THEN /\ last' = [op |-> "createWorkspace", name |-> name,
                      res |-> "AlreadyExists"]
          /\ UNCHANGED <<workspaces, writes>>
     ELSE /\ Len(writes) < MaxInFlight
          /\ workspaces' = Append(workspaces, Workspace(name, path, now))
          /\ writes' = IssueWrite(writes, StringifyStore(workspaces'))
          /\ last' = [op |-> "createWorkspace", name |-> name,
                      res |-> "pending"]
  /\ UNCHANGED <<now, storeDir, wsFile, wsWrites, wmInited,
                 activeWorkspace, goalVars, srvVars, asyncVars, earlyGoals,
                 initCall>>

\* updateLastActive(name) up to the await of writeFile.
UpdateLastActiveIssue(name) ==
  /\ wmInited
  /\ IF ~HasWorkspace(workspaces, name)
     THEN /\ last' = [op |-> "updateLastActive", name |-> name,
                      res |-> "NotFound"]
          /\ UNCHANGED <<workspaces, writes>>
     ELSE /\ Len(writes) < MaxInFlight
          /\ workspaces' =
               [workspaces EXCEPT
                  ![FindWorkspace(workspaces, name)].last_active = now]
          /\ writes' = IssueWrite(writes, StringifyStore(workspaces'))
          /\ last' = [op |-> "updateLastActive", name |-> name,
                      res |-> "pending"]
  /\ UNCHANGED <<now, storeDir, wsFile, wsWrites, wmInited,
                 activeWorkspace, goalVars, srvVars, asyncVars, earlyGoals,
                 initCall>>

\* What a completed writeFile can leave in the file.  Each writeFile
\* opens the file truncating it, writes and closes, as separate
\* operations of the thread pool; with another writeFile on the same file
\* pending, the bytes of the two can mix, which leaves a text that is no
\* JSON document.
WrittenFile(w) ==
  IF w.overlap THEN {<<w.text>>, <<w.text, "garbled">>} ELSE {<<w.text>>}

\* One pending writeFile completes, in any order, and its call returns.
WriteLands(k) ==
  /\ k \in 1..Len(writes)
  /\ wsWrites < MaxWrites
  /\ wsFile' \in WrittenFile(writes[k])
  /\ wsWrites' = wsWrites + 1
  /\ writes' = [i \in 1..(Len(writes) - 1) |->
                 IF i < k THEN writes[i] ELSE writes[i + 1]]
  /\ last' = [op |-> "writeFile", res |-> "ok",
              overlap |-> writes[k].overlap]
  /\ UNCHANGED <<now, storeDir, workspaces, wmInited, activeWorkspace,
                 goalVars, srvVars, asyncVars, earlyGoals, initCall>>

\* ------------------------------- a second WorkspaceManager on the store
\* Another process runs the same class on the same directory.  Its list in
\* memory is peer.workspaces; the file is the one file of the store.  Its
\* calls are recorded with by |-> "peer".

\* init() of the second instance.
PeerInit ==
  /\ ~Malformed(wsFile)
  /\ storeDir' = TRUE
  /\ peer' = [workspaces |-> LoadWorkspaces(wsFile), inited |-> TRUE]
  /\ IF wsFile = <<>>
     THEN /\ wsWrites < MaxWrites
          /\ wsFile' = <<StringifyStore(peer'.workspaces)>>
          /\ wsWrites' = wsWrites + 1
     ELSE UNCHANGED <<wsFile, wsWrites>>
  /\ last' = [op |-> "init", name |-> "", res |-> "ok", by |-> "peer"]
  /\ UNCHANGED <<now, workspaces, wmInited, activeWorkspace, inflight,
                 goalVars, srvVars, bgVars>>

PeerCreateWorkspaceDup(name, path) ==
  /\ peer.inited
  /\ HasWorkspace(peer.workspaces, name)
  /\ last' = [op |-> "createWorkspace", name |-> name, path |-> path,
              res |-> "AlreadyExists", by |-> "peer"]
  /\ UNCHANGED <<now, regVars, goalVars, srvVars, asyncVars, bgVars>>

\* createWorkspace that reads the file again before the push.
PeerCreateWorkspaceReloads(name, path) ==
  /\ peer.inited
  /\ ~HasWorkspace(peer.workspaces, name)
  /\ wsWrites < MaxWrites
  /\ peer' = [peer EXCEPT !.workspaces =
                Append(LoadWorkspaces(wsFile), Workspace(name, path, now))]
  /\ wsFile' = <<StringifyStore(peer'.workspaces)>>
  /\ wsWrites' = wsWrites + 1
  /\ last' = [op |-> "createWorkspace", name |-> name, path |-> path,
              res |-> "ok", by |-> "peer",
              ret |-> peer'.workspaces[Len(peer'.workspaces)]]
  /\ UNCHANGED <<now, storeDir, workspaces, wmInited, activeWorkspace,
                 inflight, goalVars, srvVars, bgVars>>

\* createWorkspace of the second instance: the test, the push and the
\* save all use its own list.
PeerCreateWorkspaceOk(name, path) ==
  /\ peer.inited
  /\ ~HasWorkspace(peer.workspaces, name)
  /\ wsWrites < MaxWrites
  /\ peer' = [peer EXCEPT !.workspaces =
                Append(peer.workspaces, Workspace(name, path, now))]
  /\ wsFile' = <<StringifyStore(peer'.workspaces)>>
  /\ wsWrites' = wsWrites + 1
  /\ last' = [op |-> "createWorkspace", name |-> name, path |-> path,
              res |-> "ok", by |-> "peer",
              ret |-> peer'.workspaces[Len(peer'.workspaces)]]
  /\ UNCHANGED <<now, storeDir, workspaces, wmInited, activeWorkspace,
                 inflight, goalVars, srvVars, bgVars>>

PeerCreateWorkspace(name, path) ==
  \/ PeerCreateWorkspaceDup(name, path)
  \/ PeerCreateWorkspaceOk(name, path)

PeerUpdateLastActiveMissing(name) ==
  /\ peer.inited
  /\ ~HasWorkspace(peer.workspaces, name)
  /\ last' = [op |-> "updateLastActive", name |-> name, res |-> "NotFound",
              by |-> "peer"]
  /\ UNCHANGED <<now, regVars, goalVars, srvVars, asyncVars, bgVars>>

PeerUpdateLastActiveOk(name) ==
  /\ peer.inited
  /\ HasWorkspace(peer.workspaces, name)
  /\ wsWrites < MaxWrites
  /\ LET i == FindWorkspace(peer.workspaces, name) IN
       /\ peer' = [peer EXCEPT !.workspaces[i].last_active = now]
       /\ last' = [op |-> "updateLastActive", name |-> name, res |-> "ok",
                   by |-> "peer", ret |-> peer'.workspaces[i]]
  /\ wsFile' = <<StringifyStore(peer'.workspaces)>>
  /\ wsWrites' = wsWrites + 1
  /\ UNCHANGED <<now, storeDir, workspaces, wmInited, activeWorkspace,
                 inflight, goalVars, srvVars, bgVars>>

PeerUpdateLastActive(name) ==
  \/ PeerUpdateLastActiveMissing(name)
  \/ PeerUpdateLastActiveOk(name)

\* ------------------------------------------------------------ GoalManager
\* Paths are sequences of segments below goalsDir = join(workspacePath,
\* ".goals"); <<>> is goalsDir itself.  fs.dirs holds the directories,
\* fs.plans the plan.md files, fs.learnings the learning files and fs.state
\* state.json (<<>> when missing, else <<text>>).

\* The state field initialiser of a GoalManager constructed at instant t:
\* active_goal null (<<>>; a name n is <<n>>), last_updated now.
NewGoalState(t) == [active_goal |-> <<>>, last_updated |-> t]

\* A workspace directory without a .goals hierarchy.
EmptyFs == [dirs |-> {}, plans |-> <<>>, learnings |-> <<>>, state |-> <<>>]

\* this.statePath
StatePath == <<"state.json">>

\* join(this.goalsDir, "goals", name)
GoalDir(name) == <<"goals", name>>

\* join(this.goalsDir, "goals", name, "plan.md")
PlanPath(name) == <<"goals", name, "plan.md">>

\* existsSync(path) for the path of a directory, a plan.md or state.json
ExistsSync(f, path) ==
  \/ path \in f.dirs
  \/ path \in DOMAIN f.plans
  \/ path = StatePath /\ f.state # <<>>

\* existsSync(join(learningDir, filename)); fs.learnings is keyed by the
\* pair <<learningDir, filename>>, the file name being a character sequence
ExistsLearning(f, dir, filename) == <<dir, filename>> \in DOMAIN f.learnings

\* mkdir(path, { recursive: true }): the directory and its missing parents
Mkdir(f, path) ==
  [f EXCEPT !.dirs = @ \cup {SubSeq(path, 1, k) : k \in 0..Len(path)}]

\* writeFile(planPath, planContent)
WritePlan(f, path, content) ==
  [f EXCEPT !.plans =
     [q \in DOMAIN @ \cup {path} |-> IF q = path THEN content ELSE @[q]]]

\* JSON.stringify(this.state, null, 2): the text keeps the two members
\* active_goal (null or a string) and last_updated.
StringifyState(st) == <<st.active_goal, st.last_updated>>

\* JSON.parse(data) of state.json
ParseState(text) == [active_goal |-> text[1], last_updated |-> text[2]]

\* saveState(): writeFile(this.statePath, JSON.stringify(this.state))
SaveState(f, st) == [f EXCEPT !.state = <<StringifyState(st)>>]

\* ensureDirectoryStructure()
EnsureDirectoryStructure(f) ==
  IF ExistsSync(f, <<>>) THEN f
  ELSE Mkdir(Mkdir(Mkdir(f, <<>>), <<"goals">>), <<"learnings">>)

\* getPlan(name): null (<<>>) when plan.md is missing, else its content
GetPlan(f, name) ==
  IF ~ExistsSync(f, PlanPath(name)) THEN <<>>
  ELSE <<f.plans[PlanPath(name)]>>

\* Variant of ListGoals that reads goalsDir itself instead of
\* goalsDir/goals.
ListGoalsOfRoot(f) ==
  IF ~ExistsSync(f, <<>>) THEN {}
  ELSE {d[1] : d \in {e \in f.dirs : Len(e) = 1}}

\* listGoals(): the entries of goalsDir/goals that are directories
ListGoals(f) ==
  IF ~ExistsSync(f, <<"goals">>) THEN {}
  ELSE {d[2] : d \in {e \in f.dirs : Len(e) = 2 /\ e[1] = "goals"}}

\* getActiveGoal()
GetActiveGoal(st) == st.active_goal

\* \s of a regular expression, over the characters used in plans
IsSpace(c) == c \in {" ", "\n", "\t"}

\* The lengths the greedy \s+ can take after the leading "#".
SpaceRuns(s) ==
  {k \in 1..(Len(s) - 1) : \A i \in 2..(k + 1) : IsSpace(s[i])}

\* The last positions the lazy (.+?) of the title can take when \s+ took k
\* characters: at least one character (the s flag lets . match a newline),
\* then "\n\n" and at least one character for the description.
TitleEnds(s, k) ==
  {e \in (k + 2)..(Len(s) - 3) : s[e + 1] = "\n" /\ s[e + 2] = "\n"}

\* The last positions the lazy (.+?) of the description can take when the
\* title ended at e: at least one character, then the lookahead
\* (?=\n\n|$), $ being the end of the input.
DescEnds(s, e) ==
  {f \in (e + 3)..Len(s) :
     \/ f = Len(s)
     \/ f + 2 <= Len(s) /\ s[f + 1] = "\n" /\ s[f + 2] = "\n"}

\* Variant of MatchDescription in which ^ and $ match at line breaks (the
\* m flag) and . stops at a newline (no s flag).
MatchDescriptionByLine(s) ==
  IF s = <<>> \/ s[1] # "#" THEN <<>>
  ELSE LET K == {k \in SpaceRuns(s) :
                   \E e \in TitleEnds(s, k) :
                     \A i \in (k + 2)..e : s[i] # "\n"}
       IN IF K = {} THEN <<>>
          ELSE LET k == CHOOSE x \in K : \A y \in K : y <= x
                   e == CHOOSE x \in TitleEnds(s, k) :
                          \A y \in TitleEnds(s, k) : x <= y
                   F == {f \in (e + 3)..Len(s) :
                           f = Len(s) \/ s[f + 1] = "\n"}
                   f == CHOOSE x \in F : \A y \in F : x <= y
               IN <<SubSeq(s, k + 2, e) \o <<"\n", "\n">>
                      \o SubSeq(s, e + 3, f)>>

\* plan.match(/^#\s+(.+?)\n\n(.+?)(?=\n\n|$)/s) and the template
\* `${title}\n\n${description}`: null (<<>>) when there is no match, else
\* the text built from the first match the backtracking search finds, \s+
\* taking the longest run, the title and the description the shortest.
MatchDescription(s) ==
  IF s = <<>> \/ s[1] # "#" THEN <<>>
  ELSE LET K == {k \in SpaceRuns(s) : TitleEnds(s, k) # {}}
       IN IF K = {} THEN <<>>
          ELSE LET k == CHOOSE x \in K : \A y \in K : y <= x
                   e == CHOOSE x \in TitleEnds(s, k) :
                          \A y \in TitleEnds(s, k) : x <= y
                   f == CHOOSE x \in DescEnds(s, e) :
                          \A y \in DescEnds(s, e) : x <= y
               IN <<SubSeq(s, k + 2, e) \o <<"\n", "\n">>
                      \o SubSeq(s, e + 3, f)>>

\* getGoalDescription(name): null when getPlan(name) is null or the empty
\* string (!plan), else the match
GetGoalDescription(f, name) ==
  LET plan == GetPlan(f, name) IN
    IF plan = <<>> \/ plan[1] = <<>> THEN <<>>
    ELSE MatchDescription(plan[1])

\* new GoalManager(workspacePath): a fresh instance on the same workspace
GmNew ==
  /\ gmState' = NewGoalState(now)
  /\ gmInited' = FALSE
  /\ last' = NoCall
  /\ UNCHANGED <<now, fs, stateWrites, regVars, srvVars, asyncVars, bgVars>>

\* Variant of LoadedState in which loadState() never assigns this.state.
LoadedStateKeepsMemory(f, st) == st

\* this.state after loadState() on hierarchy f, st being this.state before:
\* the parsed state.json, or st unchanged on ENOENT.
LoadedState(f, st) ==
  IF f.state = <<>> THEN st ELSE ParseState(f.state[1])

\* Variant of InitedFs without the saveState() on ENOENT.
InitedFsNoSave(f, st) == EnsureDirectoryStructure(f)

\* The hierarchy after init() of an instance whose state is st:
\* ensureDirectoryStructure(), then on ENOENT saveState().
InitedFs(f, st) ==
  LET g == EnsureDirectoryStructure(f) IN
    IF g.state = <<>> THEN SaveState(g, st) ELSE g

\* init(): ensureDirectoryStructure(), then loadState(): parse state.json,
\* or on ENOENT saveState() of the state held in memory.
GmInit ==
  /\ fs.state = <<>> => stateWrites < MaxWrites
  /\ gmState' = LoadedState(fs, gmState)
  /\ fs' = InitedFs(fs, gmState)
  /\ stateWrites' = IF fs.state = <<>> THEN stateWrites + 1 ELSE stateWrites
  /\ gmInited' = TRUE
  /\ last' = [op |-> "gmInit", res |-> "ok", fresh |-> ~gmInited]
  /\ UNCHANGED <<now, regVars, srvVars, asyncVars, bgVars>>

\* Variant of createGoal that ignores planContent and writes an empty plan.
CreateGoalEmptyPlan(name, planContent) ==
  /\ IF ExistsSync(fs, GoalDir(name))
     THEN /\ last' = [op |-> "createGoal", name |-> name,
                      plan |-> planContent, res |-> "AlreadyExists"]
          /\ UNCHANGED fs
     ELSE /\ fs' = WritePlan(Mkdir(Mkdir(fs, GoalDir(name)),
                                   GoalDir(name) \o <<"learnings">>),
                             PlanPath(name), <<>>)
          /\ last' = [op |-> "createGoal", name |-> name,
                      plan |-> planContent, res |-> "ok"]
  /\ UNCHANGED <<now, stateWrites, gmState, gmInited, regVars, srvVars, asyncVars, bgVars>>

\* Variant of createGoal that writes the plan without the existence test.
CreateGoalOverwrites(name, planContent) ==
  /\ fs' = WritePlan(Mkdir(Mkdir(fs, GoalDir(name)),
                           GoalDir(name) \o <<"learnings">>),
                     PlanPath(name), planContent)
  /\ last' = [op |-> "createGoal", name |-> name, plan |-> planContent,
              res |-> IF ExistsSync(fs, GoalDir(name))
                      THEN "AlreadyExists" ELSE "ok"]
  /\ UNCHANGED <<now, stateWrites, gmState, gmInited, regVars, srvVars, asyncVars, bgVars>>

\* createGoal(name, planContent): throws when the goal directory exists;
\* otherwise makes the directory and its learnings directory, writes
\* plan.md and returns the Goal.
CreateGoal(name, planContent) ==
  /\ IF ExistsSync(fs, GoalDir(name))
     THEN /\ last' = [op |-> "createGoal", name |-> name,
                      plan |-> planContent, res |-> "AlreadyExists"]
          /\ UNCHANGED fs
     ELSE /\ fs' = WritePlan(Mkdir(Mkdir(fs, GoalDir(name)),
                                   GoalDir(name) \o <<"learnings">>),
                             PlanPath(name), planContent)
          /\ last' = [op |-> "createGoal", name |-> name,
                      plan |-> planContent, res |-> "ok",
                      ret |-> [name |-> name, created_at |-> now,
                               last_updated |-> now,
                               planPath |-> PlanPath(name)]]
  /\ UNCHANGED <<now, stateWrites, gmState, gmInited, regVars, srvVars, asyncVars, bgVars>>

\* getPlan(name), called
\* createGoal as the event loop runs it: the existsSync test and the
\* issue of the first mkdir are one synchronous stretch; each await hands
\* control back, so the steps of other calls can run before the awaited
\* operation and between two awaited operations.  inflight[c].pc is the
\* operation call c awaits next.

\* The call numbers of the calls that can be started.
CallIds == {1, 2}

\* createGoal(name, planContent), up to its first await.
CreateGoalBegin(c, name, planContent) ==
  /\ c \notin DOMAIN inflight
  /\ inflight' = [d \in DOMAIN inflight \cup {c} |->
                   IF d # c THEN inflight[d]
                   ELSE [name |-> name, plan |-> planContent,
                         pc |-> IF ExistsSync(fs, GoalDir(name))
                                THEN "done" ELSE "mkdir",
                         res |-> IF ExistsSync(fs, GoalDir(name))
                                 THEN "AlreadyExists" ELSE "pending"]]
  /\ last' = [op |-> "createGoalBegin", call |-> c, res |-> inflight'[c].res]
  /\ UNCHANGED <<now, goalVars, regVars, srvVars, peer, bgVars>>

\* await mkdir(goalDir, { recursive: true }): no error on a directory
\* that exists by now.
CreateGoalMkdir(c) ==
  /\ c \in DOMAIN inflight
  /\ inflight[c].pc = "mkdir"
  /\ fs' = Mkdir(fs, GoalDir(inflight[c].name))
  /\ inflight' = [inflight EXCEPT ![c].pc = "mkdirLearnings"]
  /\ last' = [op |-> "createGoalMkdir", call |-> c, res |-> "pending"]
  /\ UNCHANGED <<now, stateWrites, gmState, gmInited, regVars, srvVars, peer, bgVars>>

\* createGoal that returns after the second mkdir, without plan.md.
CreateGoalMkdirLearningsReturns(c) ==
  /\ c \in DOMAIN inflight
  /\ inflight[c].pc = "mkdirLearnings"
  /\ fs' = Mkdir(fs, GoalDir(inflight[c].name) \o <<"learnings">>)
  /\ inflight' = [inflight EXCEPT ![c].pc = "done", ![c].res = "ok"]
  /\ last' = [op |-> "createGoalMkdirLearnings", call |-> c,
              res |-> "ok"]
  /\ UNCHANGED <<now, stateWrites, gmState, gmInited, regVars, srvVars, peer, bgVars>>

\* await mkdir(join(goalDir, "learnings"), { recursive: true }).
CreateGoalMkdirLearnings(c) ==
  /\ c \in DOMAIN inflight
  /\ inflight[c].pc = "mkdirLearnings"
  /\ fs' = Mkdir(fs, GoalDir(inflight[c].name) \o <<"learnings">>)
  /\ inflight' = [inflight EXCEPT ![c].pc = "writeFile"]
  /\ last' = [op |-> "createGoalMkdirLearnings", call |-> c,
              res |-> "pending"]
  /\ UNCHANGED <<now, stateWrites, gmState, gmInited, regVars, srvVars, peer, bgVars>>

\* The process dies: the calls that await an operation never resume.
\* What they have created stays.
Crash ==
  /\ \E c \in DOMAIN inflight : inflight[c].pc # "done"
  /\ inflight' = [c \in DOMAIN inflight |->
                   IF inflight[c].pc = "done" THEN inflight[c]
                   ELSE [inflight[c] EXCEPT !.res = "crashed"]]
  /\ last' = NoCall
  /\ UNCHANGED <<now, goalVars, regVars, srvVars, peer, bgVars>>

\* Call c has not returned and has not died.
Running(c) == inflight[c].pc # "done" /\ inflight[c].res = "pending"

\* await writeFile(planPath, planContent), then the return of the goal.
CreateGoalWriteFile(c) ==
  /\ c \in DOMAIN inflight
  /\ inflight[c].pc = "writeFile"
  /\ fs' = WritePlan(fs, PlanPath(inflight[c].name), inflight[c].plan)
  /\ inflight' = [inflight EXCEPT ![c].pc = "done", ![c].res = "ok"]
  /\ last' = [op |-> "createGoalWriteFile", call |-> c, res |-> "ok"]
  /\ UNCHANGED <<now, stateWrites, gmState, gmInited, regVars, srvVars, peer, bgVars>>

\* setActiveGoal(name) when the writeFile of saveState() rejects: the
\* two assignments to this.state have been made, the await rethrows.
SetActiveGoalWriteFails(name, error) ==
  /\ ExistsSync(fs, GoalDir(name))
  /\ gmState' = [active_goal |-> <<name>>, last_updated |-> now]
  /\ last' = [op |-> "setActiveGoal", name |-> name, res |-> error,
              fault |-> error]
  /\ UNCHANGED <<now, fs, stateWrites, gmInited, regVars, srvVars,
                 asyncVars, bgVars>>

GetPlanCall(name) ==
  /\ last' = [op |-> "getPlan", name |-> name, res |-> "ok",
              ret |-> GetPlan(fs, name)]
  /\ UNCHANGED <<now, goalVars, regVars, srvVars, asyncVars, bgVars>>

\* Variant of updatePlan that writes the plan whether or not it exists,
\* making the goal directory when it is missing.
UpdatePlanUpserts(name, planContent) ==
  /\ fs' = WritePlan(Mkdir(fs, GoalDir(name)), PlanPath(name), planContent)
  /\ last' = [op |-> "updatePlan", name |-> name, plan |-> planContent,
              res |-> IF ExistsSync(fs, PlanPath(name))
                      THEN "ok" ELSE "NotFound"]
  /\ UNCHANGED <<now, stateWrites, gmState, gmInited, regVars, srvVars, asyncVars, bgVars>>

\* Variant of updatePlan that appends to plan.md instead of overwriting it.
UpdatePlanAppends(name, planContent) ==
  /\ IF ~ExistsSync(fs, PlanPath(name))
     THEN /\ last' = [op |-> "updatePlan", name |-> name,
                      plan |-> planContent, res |-> "NotFound"]
          /\ UNCHANGED fs
     ELSE /\ fs' = WritePlan(fs, PlanPath(name),
                             fs.plans[PlanPath(name)] \o planContent)
          /\ last' = [op |-> "updatePlan", name |-> name,
                      plan |-> planContent, res |-> "ok"]
  /\ UNCHANGED <<now, stateWrites, gmState, gmInited, regVars, srvVars, asyncVars, bgVars>>

\* updatePlan(name, planContent): throws when plan.md is missing, else
\* overwrites it.
UpdatePlan(name, planContent) ==
  /\ IF ~ExistsSync(fs, PlanPath(name))
     THEN /\ last' = [op |-> "updatePlan", name |-> name,
                      plan |-> planContent, res |-> "NotFound"]
          /\ UNCHANGED fs
     ELSE /\ fs' = WritePlan(fs, PlanPath(name), planContent)
          /\ last' = [op |-> "updatePlan", name |-> name,
                      plan |-> planContent, res |-> "ok"]
  /\ UNCHANGED <<now, stateWrites, gmState, gmInited, regVars, srvVars, asyncVars, bgVars>>

\* getGoalDescription(name), called
GetGoalDescriptionCall(name) ==
  /\ last' = [op |-> "getGoalDescription", name |-> name, res |-> "ok",
              ret |-> GetGoalDescription(fs, name)]
  /\ UNCHANGED <<now, goalVars, regVars, srvVars, asyncVars, bgVars>>

\* The errors readFile can reject with on a plan.md that exists.
ReadErrors == {"EACCES", "EIO"}

\* getPlan(name) when plan.md exists and readFile rejects: the catch
\* block returns null, and the call resolves.  fault records the error
\* the storage raised.
GetPlanCallReadFails(name, error) ==
  /\ ExistsSync(fs, PlanPath(name))
  /\ last' = [op |-> "getPlan", name |-> name, res |-> "ok",
              ret |-> <<>>, fault |-> error]
  /\ UNCHANGED <<now, goalVars, regVars, srvVars, asyncVars, bgVars>>

\* getGoalDescription(name) when the readFile of its getPlan rejects:
\* plan is null, so it returns null.
GetGoalDescriptionCallReadFails(name, error) ==
  /\ ExistsSync(fs, PlanPath(name))
  /\ last' = [op |-> "getGoalDescription", name |-> name, res |-> "ok",
              ret |-> <<>>, fault |-> error]
  /\ UNCHANGED <<now, goalVars, regVars, srvVars, asyncVars, bgVars>>

\* The orders in which readdir can hand out the names of set S.
Orders(S) ==
  {q \in [1..Cardinality(S) -> S] :
     \A i, j \in 1..Cardinality(S) : q[i] = q[j] => i = j}

\* Variant of getGoalSummaries that leaves out the goals without a
\* description.
GetGoalSummariesCallOmitsAbsent ==
  /\ \E goals \in Orders(ListGoals(fs)) :
       last' = [op |-> "getGoalSummaries", res |-> "ok", goals |-> goals,
                ret |-> SelectSeq(
                  [i \in 1..Len(goals) |->
                     [name |-> goals[i],
                      description |-> GetGoalDescription(fs, goals[i])]],
                  LAMBDA e : e.description # <<>>)]
  /\ UNCHANGED <<now, goalVars, regVars, srvVars, asyncVars, bgVars>>

\* getGoalSummaries(): listGoals(), then for every name, in that order,
\* the pair of the name and getGoalDescription(name).
GetGoalSummariesCall ==
  /\ \E goals \in Orders(ListGoals(fs)) :
       last' = [op |-> "getGoalSummaries", res |-> "ok", goals |-> goals,
                ret |-> [i \in 1..Len(goals) |->
                           [name |-> goals[i],
                            description |->
                              GetGoalDescription(fs, goals[i])]]]
  /\ UNCHANGED <<now, goalVars, regVars, srvVars, asyncVars, bgVars>>

\* Variant of setActiveGoal without the existence test.
SetActiveGoalNoCheck(name) ==
  /\ stateWrites < MaxWrites
  /\ gmState' = [active_goal |-> <<name>>, last_updated |-> now]
  /\ fs' = SaveState(Mkdir(fs, <<>>), gmState')
  /\ stateWrites' = stateWrites + 1
  /\ last' = [op |-> "setActiveGoal", name |-> name,
              res |-> IF ExistsSync(fs, GoalDir(name))
                      THEN "ok" ELSE "NotFound"]
  /\ UNCHANGED <<now, gmInited, regVars, srvVars, asyncVars, bgVars>>

\* Variant of setActiveGoal that stamps and saves the state before the
\* existence test.
SetActiveGoalStampsFirst(name) ==
  /\ stateWrites < MaxWrites
  /\ IF ~ExistsSync(fs, GoalDir(name))
     THEN /\ gmState' = [gmState EXCEPT !.last_updated = now]
          /\ last' = [op |-> "setActiveGoal", name |-> name,
                      res |-> "NotFound"]
     ELSE /\ gmState' = [active_goal |-> <<name>>, last_updated |-> now]
          /\ last' = [op |-> "setActiveGoal", name |-> name, res |-> "ok"]
  /\ fs' = SaveState(Mkdir(fs, <<>>), gmState')
  /\ stateWrites' = stateWrites + 1
  /\ UNCHANGED <<now, gmInited, regVars, srvVars, asyncVars, bgVars>>

\* setActiveGoal(name): throws when the goal directory is missing, else
\* assigns active_goal and last_updated and calls saveState().
SetActiveGoal(name) ==
  /\ IF ~ExistsSync(fs, GoalDir(name))
     THEN /\ last' = [op |-> "setActiveGoal", name |-> name,
                      res |-> "NotFound"]
          /\ UNCHANGED <<fs, stateWrites, gmState>>
     ELSE /\ stateWrites < MaxWrites
          /\ gmState' = [active_goal |-> <<name>>, last_updated |-> now]
          /\ fs' = SaveState(fs, gmState')
          /\ stateWrites' = stateWrites + 1
          /\ last' = [op |-> "setActiveGoal", name |-> name, res |-> "ok"]
  /\ UNCHANGED <<now, gmInited, regVars, srvVars, asyncVars, bgVars>>


\* formatLearningContent(learning): the template with the six fields in
\* place; the timestamp is not part of the document.
FormatLearningContent(l) ==
  <<"## ", l.title,
    "\n\n    ### Context\n    ", l.context,
    "\n\n    ### Details\n    ", l.details,
    "\n\n    ### Rationale\n    ", l.rationale,
    "\n\n    ### Alternatives Considered\n    ", l.alternatives,
    "\n\n    ### References\n    ", l.references, "\n    ">>

\* formatTimestampForFilename(timestamp): timestamp.replace(/[:\.]/g, "_")
\* An encoding that keeps the timestamp up to its seconds.
FormatTimestampToSeconds(ts) ==
  [i \in 1..(IF Len(ts) < 19 THEN Len(ts) ELSE 19) |->
     IF ts[i] \in {":", "."} THEN "_" ELSE ts[i]]

FormatTimestampForFilename(ts) ==
  [i \in 1..Len(ts) |-> IF ts[i] \in {":", "."} THEN "_" ELSE ts[i]]

\* filename.replace(".md", ""): the first occurrence of ".md" is removed
RemoveMd(filename) ==
  LET At == {i \in 1..(Len(filename) - 2) :
               /\ filename[i] = "."
               /\ filename[i + 1] = "m"
               /\ filename[i + 2] = "d"}
  IN IF At = {} THEN filename
     ELSE LET i == CHOOSE x \in At : \A y \in At : x <= y
          IN SubSeq(filename, 1, i - 1)
               \o SubSeq(filename, i + 3, Len(filename))

\* Variant of ParseTimestampFromFilename that counts the offsets from 1.
ParseTimestampOffsetsFromOne(filename) ==
  LET t == RemoveMd(filename) IN
    [i \in 1..Len(t) |->
       IF t[i] # "_" THEN t[i]
       ELSE IF i = 13 \/ i = 16 THEN ":"
       ELSE IF i = 19 THEN "."
       ELSE t[i]]

\* parseTimestampFromFilename(filename): after the removal of ".md", every
\* "_" at offset 13 or 16 (counted from 0) becomes ":", the one at offset
\* 19 becomes ".", any other stays.
ParseTimestampFromFilename(filename) ==
  LET t == RemoveMd(filename) IN
    [i \in 1..Len(t) |->
       IF t[i] # "_" THEN t[i]
       ELSE IF i - 1 = 13 \/ i - 1 = 16 THEN ":"
       ELSE IF i - 1 = 19 THEN "."
       ELSE t[i]]

\* `${this.formatTimestampForFilename(timestamp)}.md`
LearningFilename(ts) == FormatTimestampForFilename(ts) \o <<".", "m", "d">>

\* learningDir: the goal's learnings directory when goalName is given
\* (<<g>>), the workspace-level one when it is undefined (<<>>)
LearningDir(goalName) ==
  IF goalName # <<>> THEN <<"goals", goalName[1], "learnings">>
  ELSE <<"learnings">>

\* writeFile(filepath, content) of a learning file
WriteLearning(f, dir, filename, content) ==
  [f EXCEPT !.learnings =
     [q \in DOMAIN @ \cup {<<dir, filename>>} |->
        IF q = <<dir, filename>> THEN content ELSE @[q]]]

\* Variant of addLearning that writes without testing whether the file of
\* that timestamp exists.
AddLearningOverwrites(l, goalName) ==
  /\ IF goalName # <<>> /\ ~ExistsSync(fs, GoalDir(goalName[1]))
     THEN /\ last' = [op |-> "addLearning", learning |-> l,
                      goalName |-> goalName, res |-> "NotFound"]
          /\ UNCHANGED fs
     ELSE LET dir == LearningDir(goalName)
              f == IF ExistsSync(fs, dir) THEN fs ELSE Mkdir(fs, dir)
              filename == LearningFilename(l.timestamp)
          IN /\ last' = [op |-> "addLearning", learning |-> l,
                         goalName |-> goalName,
                         res |-> IF ExistsLearning(f, dir, filename)
                                 THEN "AlreadyExists" ELSE "ok"]
             /\ fs' = WriteLearning(f, dir, filename,
                                    FormatLearningContent(l))
  /\ UNCHANGED <<now, stateWrites, gmState, gmInited, regVars, srvVars, asyncVars, bgVars>>

\* Variant of addLearning that makes the learnings directory before it
\* tests the goal.
AddLearningMkdirFirst(l, goalName) ==
  /\ LET dir == LearningDir(goalName)
         f == IF ExistsSync(fs, dir) THEN fs ELSE Mkdir(fs, dir)
         filename == LearningFilename(l.timestamp)
     IN IF goalName # <<>> /\ ~ExistsSync(fs, GoalDir(goalName[1]))
        THEN /\ last' = [op |-> "addLearning", learning |-> l,
                         goalName |-> goalName, res |-> "NotFound"]
             /\ fs' = f
        ELSE IF ExistsLearning(f, dir, filename)
             THEN /\ last' = [op |-> "addLearning", learning |-> l,
                              goalName |-> goalName, res |-> "AlreadyExists"]
                  /\ fs' = f
             ELSE /\ last' = [op |-> "addLearning", learning |-> l,
                              goalName |-> goalName, res |-> "ok"]
                  /\ fs' = WriteLearning(f, dir, filename,
                                         FormatLearningContent(l))
  /\ UNCHANGED <<now, stateWrites, gmState, gmInited, regVars, srvVars, asyncVars, bgVars>>

\* Variant of addLearning that tests the existence of a file named by the
\* timestamp as given, not by its formatted form.
AddLearningChecksRawName(l, goalName) ==
  /\ IF goalName # <<>> /\ ~ExistsSync(fs, GoalDir(goalName[1]))
     THEN /\ last' = [op |-> "addLearning", learning |-> l,
                      goalName |-> goalName, res |-> "NotFound"]
          /\ UNCHANGED fs
     ELSE LET dir == LearningDir(goalName)
              f == IF ExistsSync(fs, dir) THEN fs ELSE Mkdir(fs, dir)
              filename == LearningFilename(l.timestamp)
          IN IF ExistsLearning(f, dir, l.timestamp \o <<".", "m", "d">>)
             THEN /\ last' = [op |-> "addLearning", learning |-> l,
                              goalName |-> goalName, res |-> "AlreadyExists"]
                  /\ fs' = f
             ELSE /\ last' = [op |-> "addLearning", learning |-> l,
                              goalName |-> goalName, res |-> "ok"]
                  /\ fs' = WriteLearning(f, dir, filename,
                                         FormatLearningContent(l))
  /\ UNCHANGED <<now, stateWrites, gmState, gmInited, regVars, srvVars, asyncVars, bgVars>>

\* addLearning(learning, goalName?): throws NotFound for a missing goal;
\* makes the learnings directory when missing; throws AlreadyExists when
\* the file of that timestamp exists; else writes the document.
\* addLearning with the existence test made on the workspace-level
\* directory whatever the scope is.
AddLearningOneNamespace(l, goalName) ==
  /\ IF goalName # <<>> /\ ~ExistsSync(fs, GoalDir(goalName[1]))
     THEN /\ last' = [op |-> "addLearning", learning |-> l,
                      goalName |-> goalName, res |-> "NotFound"]
          /\ UNCHANGED fs
     ELSE LET dir == LearningDir(goalName)
              f == IF ExistsSync(fs, dir) THEN fs ELSE Mkdir(fs, dir)
              filename == LearningFilename(l.timestamp)
          IN IF \/ ExistsLearning(f, dir, filename)
                \/ ExistsLearning(f, LearningDir(<<>>), filename)
             THEN /\ last' = [op |-> "addLearning", learning |-> l,
                              goalName |-> goalName, res |-> "AlreadyExists"]
                  /\ fs' = f
             ELSE /\ last' = [op |-> "addLearning", learning |-> l,
                              goalName |-> goalName, res |-> "ok"]
                  /\ fs' = WriteLearning(f, dir, filename,
                                         FormatLearningContent(l))
  /\ UNCHANGED <<now, stateWrites, gmState, gmInited, regVars, srvVars, asyncVars, bgVars>>

AddLearning(l, goalName) ==
  /\ IF goalName # <<>> /\ ~ExistsSync(fs, GoalDir(goalName[1]))
     THEN /\ last' = [op |-> "addLearning", learning |-> l,
                      goalName |-> goalName, res |-> "NotFound"]
          /\ UNCHANGED fs
     ELSE LET dir == LearningDir(goalName)
              f == IF ExistsSync(fs, dir) THEN fs ELSE Mkdir(fs, dir)
              filename == LearningFilename(l.timestamp)
          IN IF ExistsLearning(f, dir, filename)
             THEN /\ last' = [op |-> "addLearning", learning |-> l,
                              goalName |-> goalName, res |-> "AlreadyExists"]
                  /\ fs' = f
             ELSE /\ last' = [op |-> "addLearning", learning |-> l,
                              goalName |-> goalName, res |-> "ok"]
                  /\ fs' = WriteLearning(f, dir, filename,
                                         FormatLearningContent(l))
  /\ UNCHANGED <<now, stateWrites, gmState, gmInited, regVars, srvVars, asyncVars, bgVars>>

\* The outcomes of readFile(learningDir) on a path that names a directory:
\* the promise rejects with EISDIR; on a platform whose read of a directory
\* succeeds the Buffer's filter() hands numbers to file.endsWith, a
\* TypeError.
ReadFileOfDirectory == {"EISDIR", "TypeError"}

\* getLearnings(goalName?): [] when the learnings directory is missing;
\* otherwise readFile(learningDir) is called on that directory, and the
\* filter, map and sort that follow are never reached.
GetLearningsCall(goalName) ==
  /\ IF ~ExistsSync(fs, LearningDir(goalName))
     THEN last' = [op |-> "getLearnings", goalName |-> goalName,
                   res |-> "ok", ret |-> <<>>]
     ELSE \E err \in ReadFileOfDirectory :
            last' = [op |-> "getLearnings", goalName |-> goalName,
                     res |-> err]
  /\ UNCHANGED <<now, goalVars, regVars, srvVars, asyncVars, bgVars>>

\* Variant of getLearning that looks in the workspace-level directory
\* whatever the scope.
GetLearningCallWorkspaceLevel(timestamp, goalName) ==
  /\ LET dir == LearningDir(<<>>)
         filename == LearningFilename(timestamp)
     IN IF ~ExistsLearning(fs, dir, filename)
        THEN last' = [op |-> "getLearning", timestamp |-> timestamp,
                      goalName |-> goalName, res |-> "NotFound"]
        ELSE last' = [op |-> "getLearning", timestamp |-> timestamp,
                      goalName |-> goalName, res |-> "ok",
                      ret |-> fs.learnings[<<dir, filename>>]]
  /\ UNCHANGED <<now, goalVars, regVars, srvVars, asyncVars, bgVars>>

\* getLearning(timestamp, goalName?): throws when the file of that
\* timestamp is missing in the scope's directory, else returns its content.
GetLearningCall(timestamp, goalName) ==
  /\ LET dir == LearningDir(goalName)
         filename == LearningFilename(timestamp)
     IN IF ~ExistsLearning(fs, dir, filename)
        THEN last' = [op |-> "getLearning", timestamp |-> timestamp,
                      goalName |-> goalName, res |-> "NotFound"]
        ELSE last' = [op |-> "getLearning", timestamp |-> timestamp,
                      goalName |-> goalName, res |-> "ok",
                      ret |-> fs.learnings[<<dir, filename>>]]
  /\ UNCHANGED <<now, goalVars, regVars, srvVars, asyncVars, bgVars>>

\* ------------------------------------------------- the server's tools
\* The tools of createServer(workspaceManager) that work on goals.  Each
\* request makes its own GoalManager on the path of the workspace it is
\* given and awaits its init() before the call.

\* init-workspace: updateLastActive(name), which throws on an unregistered
\* name; then new GoalManager(workspace.path), init(), and the reads
\* getActiveGoal(), getGoalSummaries() that make up the response.
InitWorkspaceTool(name) ==
  /\ wmInited
  /\ IF ~HasWorkspace(workspaces, name)
     THEN /\ last' = [op |-> "init-workspace", name |-> name,
                      res |-> "NotFound"]
          /\ UNCHANGED <<wsFile, wsWrites, workspaces, activeWorkspace, wsFs>>
     ELSE /\ wsWrites < MaxWrites
          /\ LET i == FindWorkspace(workspaces, name)
                 p == workspaces[i].path
             IN /\ workspaces' = [workspaces EXCEPT ![i].last_active = now]
                /\ activeWorkspace' = Activated(workspaces'[i])
                /\ wsFs' = [wsFs EXCEPT ![p] = InitedFs(@, NewGoalState(now))]
                /\ last' = [op |-> "init-workspace", name |-> name,
                            res |-> "ok", path |-> p,
                            activeGoal |->
                              GetActiveGoal(LoadedState(wsFs[p],
                                                        NewGoalState(now))),
                            goals |-> ListGoals(wsFs'[p])]
          /\ wsFile' = <<StringifyStore(workspaces')>>
          /\ wsWrites' = wsWrites + 1
  /\ UNCHANGED <<now, storeDir, wmInited, goalVars, asyncVars, bgVars>>

\* Variant of create-goal that takes the head of getAll() for the active
\* workspace.
CreateGoalToolFirstListed(name, plan) ==
  /\ IF workspaces = <<>>
     THEN /\ last' = [op |-> "create-goal", name |-> name, plan |-> plan,
                      res |-> "NoActiveWorkspace"]
          /\ UNCHANGED wsFs
     ELSE LET p == GetAll(workspaces)[1].path
              f == InitedFs(wsFs[p], NewGoalState(now))
          IN IF ExistsSync(f, GoalDir(name))
             THEN /\ wsFs' = [wsFs EXCEPT ![p] = f]
                  /\ last' = [op |-> "create-goal", name |-> name,
                              plan |-> plan, res |-> "AlreadyExists"]
             ELSE /\ wsFs' = [wsFs EXCEPT ![p] =
                                WritePlan(Mkdir(Mkdir(f, GoalDir(name)),
                                                GoalDir(name) \o <<"learnings">>),
                                          PlanPath(name), plan)]
                  /\ last' = [op |-> "create-goal", name |-> name,
                              plan |-> plan, res |-> "ok"]
  /\ UNCHANGED <<now, regVars, goalVars, asyncVars, bgVars>>

\* create-goal: throws when getActiveWorkspace() is none; otherwise
\* new GoalManager(workspace.path), init(), createGoal(name, plan).
CreateGoalTool(name, plan) ==
  /\ LET workspace == GetActiveWorkspace(activeWorkspace) IN
       IF workspace = <<>>
       THEN /\ last' = [op |-> "create-goal", name |-> name, plan |-> plan,
                        res |-> "NoActiveWorkspace"]
            /\ UNCHANGED wsFs
       ELSE LET p == workspace[1].path
                f == InitedFs(wsFs[p], NewGoalState(now))
            IN IF ExistsSync(f, GoalDir(name))
               THEN /\ wsFs' = [wsFs EXCEPT ![p] = f]
                    /\ last' = [op |-> "create-goal", name |-> name,
                                plan |-> plan, res |-> "AlreadyExists"]
               ELSE /\ wsFs' = [wsFs EXCEPT ![p] =
                                  WritePlan(Mkdir(Mkdir(f, GoalDir(name)),
                                                  GoalDir(name) \o <<"learnings">>),
                                            PlanPath(name), plan)]
                    /\ last' = [op |-> "create-goal", name |-> name,
                                plan |-> plan, res |-> "ok"]
  /\ UNCHANGED <<now, regVars, goalVars, asyncVars, bgVars>>

\* set-active-goal: throws when getActiveWorkspace() is none; otherwise
\* new GoalManager(workspace.path), init(), setActiveGoal(name).
SetActiveGoalTool(name) ==
  /\ LET workspace == GetActiveWorkspace(activeWorkspace) IN
       IF workspace = <<>>
       THEN /\ last' = [op |-> "set-active-goal", name |-> name,
                        res |-> "NoActiveWorkspace"]
            /\ UNCHANGED wsFs
       ELSE LET p == workspace[1].path
                f == InitedFs(wsFs[p], NewGoalState(now))
            IN IF ~ExistsSync(f, GoalDir(name))
               THEN /\ wsFs' = [wsFs EXCEPT ![p] = f]
                    /\ last' = [op |-> "set-active-goal", name |-> name,
                                res |-> "NotFound"]
               ELSE /\ wsFs' = [wsFs EXCEPT ![p] =
                                  SaveState(f, [active_goal |-> <<name>>,
                                                last_updated |-> now])]
                    /\ last' = [op |-> "set-active-goal", name |-> name,
                                res |-> "ok"]
  /\ UNCHANGED <<now, regVars, goalVars, asyncVars, bgVars>>

\* ------------------------------------------------ the early goals server
\* createServer(): the Map is a local of the call, so every server
\* instance starts with an empty one; nothing is read from a store.
CreateEarlyServer ==
  /\ earlyGoals' = NewGoalsMap
  /\ last' = [op |-> "createServer", res |-> "ok"]
  /\ UNCHANGED <<now, regVars, goalVars, srvVars, asyncVars, initCall, writes>>

\* add-goal: goals.set(id, description).
AddGoalTool(id, description) ==
  /\ earlyGoals' = [earlyGoals EXCEPT ![id] = <<description>>]
  /\ last' = [op |-> "add-goal", name |-> id, res |-> "ok"]
  /\ UNCHANGED <<now, regVars, goalVars, srvVars, asyncVars, initCall, writes>>

\* What goals://{id} answers on a Map: the text, or <<>> for the
\* "not found" error, which `!goal` also raises on an empty description.
ReadGoal(map, id) ==
  IF map[id] = <<>> \/ map[id] = <<"">> THEN <<>> ELSE map[id]

\* resource goals://{id}.
ReadGoalResource(id) ==
  /\ last' = [op |-> "readGoal", name |-> id,
              res |-> IF ReadGoal(earlyGoals, id) = <<>>
                      THEN "NotFound" ELSE "ok",
              ret |-> ReadGoal(earlyGoals, id)]
  /\ UNCHANGED <<now, regVars, goalVars, srvVars, asyncVars, bgVars>>

\* ------------------------------------------------- goal store, one caller

\* Canonical timestamps YYYY-MM-DDTHH:mm:ss.sssZ, as character sequences.
TsJan ==
  <<"2", "0", "2", "4", "-", "0", "1", "-", "0", "1", "T",
    "0", "0", ":", "0", "0", ":", "0", "0", ".", "0", "0", "0", "Z">>
TsJun ==
  <<"2", "0", "2", "4", "-", "0", "6", "-", "0", "1", "T",
    "0", "0", ":", "0", "0", ":", "0", "0", ".", "0", "0", "0", "Z">>

\* interface Learning
Learning(ts, title) ==
  [timestamp |-> ts, title |-> title, context |-> "c", details |-> "d",
   rationale |-> "r", alternatives |-> "a", references |-> "f"]

\* Learnings handed to addLearning.
Learnings == {Learning(TsJan, "t1")}
\* Scopes handed to addLearning: the workspace level or one goal.
Scopes == {<<>>, <<"a">>}

\* After construction: an empty store directory, a workspace without a
\* .goals hierarchy, and instances whose init() has not run.
Init ==
  /\ now = 0
  /\ last = NoCall
  /\ storeDir = FALSE
  /\ wsFile = <<>>
  /\ wsWrites = 0
  /\ workspaces = <<>>
  /\ wmInited = FALSE
  /\ activeWorkspace = <<>>
  /\ wsFs = [p \in WsPaths |-> EmptyFs]
  /\ peer = NoPeer
  /\ inflight = <<>>
  /\ earlyGoals = NewGoalsMap
  /\ initCall = NoInitCall
  /\ writes = <<>>
  /\ fs = EmptyFs
  /\ stateWrites = 0
  /\ gmState = NewGoalState(0)
  /\ gmInited = FALSE

GoalNext ==
  \/ Tick
  \/ GmNew
  \/ GmInit
  \/ \E n \in GoalNames, x \in PlanTexts : CreateGoal(n, x)
  \/ \E n \in GoalNames : GetPlanCall(n)
  \/ \E n \in GoalNames, x \in PlanTexts : UpdatePlan(n, x)
  \/ \E n \in GoalNames : SetActiveGoal(n)
  \/ \E l \in Learnings, g \in Scopes : AddLearning(l, g)

\* One workspace's goal store used by one caller at a time.
SpecGoal == Init /\ [][GoalNext]_vars

\* ---------------------------------------------------- registry, one caller
RegNext ==
  \/ Tick
  \/ WmNew
  \/ WmInit
  \/ \E n \in WsNames, p \in WsPaths : CreateWorkspace(n, p)
  \/ \E n \in WsNames : UpdateLastActive(n)
  \/ ListWorkspaces

\* The registry used by one caller at a time, every call awaited.
SpecReg == Init /\ [][RegNext]_vars

\* ---------------------------------------------- learnings, one caller
\* Learnings handed to addLearning (two of them carry the same timestamp),
\* the timestamps asked of getLearning, the goal names and the plan.
LearnInputs ==
  {Learning(TsJan, "t1"), Learning(TsJun, "t2"), Learning(TsJan, "t3")}
LearnTimestamps == {TsJan, TsJun}
LearnGoalNames == {"a"}
LearnScopes == {<<>>} \cup {<<g>> : g \in LearnGoalNames}
LearnPlans == {<<>>, <<"x">>}

LearnNext ==
  \/ GmNew
  \/ GmInit
  \/ \E n \in LearnGoalNames : CreateGoal(n, <<>>)
  \/ \E n \in LearnGoalNames, x \in LearnPlans : UpdatePlan(n, x)
  \/ \E n \in LearnGoalNames : SetActiveGoal(n)
  \/ \E l \in LearnInputs, g \in LearnScopes : AddLearning(l, g)
  \/ \E g \in LearnScopes : GetLearningsCall(g)
  \/ \E t \in LearnTimestamps, g \in LearnScopes : GetLearningCall(t, g)

\* One workspace's goal store and its learnings used by one caller at a
\* time.  No learning operation reads the clock: a learning's timestamp is
\* an argument.
SpecLearn == Init /\ [][LearnNext]_vars

\* ------------------------------------------------- the timestamp codec
\* Timestamps in the form toISOString() gives, YYYY-MM-DDTHH:mm:ss.sssZ.
IsoTimestamp(y, mo, d, h, mi, sec, ms) ==
  y \o <<"-">> \o mo \o <<"-">> \o d \o <<"T">> \o h \o <<":">> \o mi
    \o <<":">> \o sec \o <<".">> \o ms \o <<"Z">>
IsoYears == {<<"2", "0", "2", "4">>, <<"1", "9", "9", "9">>}
IsoMonths == {<<"0", "1">>, <<"1", "2">>}
IsoDays == {<<"0", "1">>, <<"3", "1">>}
IsoHours == {<<"0", "0">>, <<"2", "3">>}
IsoSixtieths == {<<"0", "0">>, <<"5", "9">>}
IsoMillis == {<<"0", "0", "0">>, <<"9", "9", "9">>}
IsoTimestamps ==
  {IsoTimestamp(y, mo, d, h, mi, sec, ms) :
     y \in IsoYears, mo \in IsoMonths, d \in IsoDays, h \in IsoHours,
     mi \in IsoSixtieths, sec \in IsoSixtieths, ms \in IsoMillis}

\* A caller holds a timestamp returned by getCurrentTimestamp().
InitCodec ==
  /\ now = 0
  /\ \E ts \in IsoTimestamps :
       last = [op |-> "getCurrentTimestamp", res |-> "ok", ret |-> ts]
  /\ storeDir = FALSE
  /\ wsFile = <<>>
  /\ wsWrites = 0
  /\ workspaces = <<>>
  /\ wmInited = FALSE
  /\ activeWorkspace = <<>>
  /\ wsFs = [p \in WsPaths |-> EmptyFs]
  /\ peer = NoPeer
  /\ inflight = <<>>
  /\ earlyGoals = NewGoalsMap
  /\ initCall = NoInitCall
  /\ writes = <<>>
  /\ fs = EmptyFs
  /\ stateWrites = 0
  /\ gmState = NewGoalState(0)
  /\ gmInited = FALSE

\* The file name addLearning and getLearning make of the timestamp held.
LearningFilenameCall ==
  /\ last.op = "getCurrentTimestamp"
  /\ last' = [op |-> "formatTimestampForFilename", res |-> "ok",
              timestamp |-> last.ret, ret |-> LearningFilename(last.ret)]
  /\ UNCHANGED <<now, goalVars, regVars, srvVars, asyncVars, bgVars>>

\* parseTimestampFromFilename on that file name, as getLearnings applies it
\* to the entries of a learnings directory.
ParseTimestampCall ==
  /\ last.op = "formatTimestampForFilename"
  /\ last' = [op |-> "parseTimestampFromFilename", res |-> "ok",
              timestamp |-> last.timestamp, filename |-> last.ret,
              ret |-> ParseTimestampFromFilename(last.ret)]
  /\ UNCHANGED <<now, goalVars, regVars, srvVars, asyncVars, bgVars>>

CodecNext ==
  \/ LearningFilenameCall
  \/ ParseTimestampCall

\* A timestamp encoded into a file name and decoded again.
SpecCodec == InitCodec /\ [][CodecNext]_vars

\* ------------------------------------------- summaries of stored plans
\* The characters of plan documents and the documents up to MaxPlanLen.
PlanChars == {"#", " ", "\n", "x"}
PlanDocs == UNION {[1..n -> PlanChars] : n \in 0..MaxPlanLen}
DescGoalNames == {"a", "b"}

\* A workspace on which init() and createGoal("a", x) were awaited, for a
\* plan document x; goal "b" was never created.
InitDesc ==
  /\ now = 0
  /\ last = NoCall
  /\ storeDir = FALSE
  /\ wsFile = <<>>
  /\ wsWrites = 0
  /\ workspaces = <<>>
  /\ wmInited = FALSE
  /\ activeWorkspace = <<>>
  /\ wsFs = [p \in WsPaths |-> EmptyFs]
  /\ peer = NoPeer
  /\ inflight = <<>>
  /\ earlyGoals = NewGoalsMap
  /\ initCall = NoInitCall
  /\ writes = <<>>
  /\ \E x \in PlanDocs :
       fs = WritePlan(Mkdir(Mkdir(InitedFs(EmptyFs, NewGoalState(0)),
                                  GoalDir("a")),
                            GoalDir("a") \o <<"learnings">>),
                      PlanPath("a"), x)
  /\ stateWrites = 1
  /\ gmState = NewGoalState(0)
  /\ gmInited = TRUE

DescNext == \E n \in DescGoalNames : GetGoalDescriptionCall(n)

\* getGoalDescription on a stored plan.
SpecDesc == InitDesc /\ [][DescNext]_vars

\* ------------------------------------------------ the server, one client
\* Workspace and goal names and the plan handed to the tools.
SrvWsNames == {"w1", "w2"}
SrvGoalNames == {"a"}
SrvPlan == <<"#", " ", "T", "\n", "\n", "d">>

SrvNext ==
  \/ Tick
  \/ WmNew
  \/ WmInit
  \/ \E n \in SrvWsNames, p \in WsPaths : CreateWorkspace(n, p)
  \/ \E n \in SrvWsNames : InitWorkspaceTool(n)
  \/ \E n \in SrvGoalNames : CreateGoalTool(n, SrvPlan)
  \/ \E n \in SrvGoalNames : SetActiveGoalTool(n)

\* One server on one registry, its requests handled one at a time.
SpecSrv == Init /\ [][SrvNext]_vars

\* ------------------------------------- registry, loads that can fail
RegLoadNext ==
  \/ Tick
  \/ WmNew
  \/ WmInit
  \/ WmInitMalformed
  \/ WmInitUnreadable
  \/ GarbleStore
  \/ \E name \in WsNames, path \in WsPaths : CreateWorkspace(name, path)

SpecRegLoad == Init /\ [][RegLoadNext]_vars

\* ------------------------------------- goal store, listing with summaries
SummariesNext ==
  \/ Tick
  \/ GmInit
  \/ \E n \in GoalNames, x \in PlanTexts : CreateGoal(n, x)
  \/ \E n \in GoalNames, x \in PlanTexts : UpdatePlan(n, x)
  \/ \E n \in GoalNames : SetActiveGoal(n)
  \/ GetGoalSummariesCall

SpecSummaries == Init /\ [][SummariesNext]_vars

\* ------------------------------------- goal store, reads that can fail
ReadFailNext ==
  \/ Tick
  \/ GmInit
  \/ \E name \in GoalNames, plan \in PlanTexts : CreateGoal(name, plan)
  \/ \E name \in GoalNames, plan \in PlanTexts : UpdatePlan(name, plan)
  \/ \E name \in GoalNames : GetPlanCall(name)
  \/ \E name \in GoalNames : GetGoalDescriptionCall(name)
  \/ \E name \in GoalNames, error \in ReadErrors :
       GetPlanCallReadFails(name, error)
  \/ \E name \in GoalNames, error \in ReadErrors :
       GetGoalDescriptionCallReadFails(name, error)

SpecReadFail == Init /\ [][ReadFailNext]_vars

\* --------------------------------------- registry, two processes
\* Both processes register every name at one path: no operation of the
\* registry reads the path.
TwoRegPath == "/p1"

TwoRegNext ==
  \/ Tick
  \/ WmInit
  \/ PeerInit
  \/ \E n \in WsNames : CreateWorkspace(n, TwoRegPath)
  \/ \E n \in WsNames : PeerCreateWorkspace(n, TwoRegPath)
  \/ \E n \in WsNames : UpdateLastActive(n)
  \/ \E n \in WsNames : PeerUpdateLastActive(n)

SpecTwoReg == Init /\ [][TwoRegNext]_vars

\* ------------------------------------- goal store, calls that overlap
RaceNext ==
  \/ Tick
  \/ GmInit
  \/ \E c \in CallIds, name \in GoalNames, plan \in PlanTexts :
       CreateGoalBegin(c, name, plan)
  \/ \E c \in CallIds : CreateGoalMkdir(c)
  \/ \E c \in CallIds : CreateGoalMkdirLearnings(c)
  \/ \E c \in CallIds : CreateGoalWriteFile(c)

SpecRace == Init /\ [][RaceNext]_vars

\* ------------------------------------- the early server and its restarts
EarlyNext ==
  \/ CreateEarlyServer
  \/ \E id \in EarlyIds, d \in EarlyDescriptions : AddGoalTool(id, d)
  \/ \E id \in EarlyIds : ReadGoalResource(id)

SpecEarly == Init /\ [][EarlyNext]_vars

\* ------------------------------------------- the process from its start
StartNext ==
  \/ Tick
  \/ StartMain
  \/ InitMkdir
  \/ InitReadFile
  \/ InitAssign
  \/ InitSave
  \/ GarbleStore
  \/ \E n \in WsNames : CreateWorkspaceHandler(n, TwoRegPath)

SpecStart == Init /\ [][StartNext]_vars

\* ------------------------------------- registry, calls that overlap
OverlapNext ==
  \/ Tick
  \/ (~wmInited /\ WmInit)
  \/ \E n \in WsNames : CreateWorkspaceIssue(n, TwoRegPath)
  \/ \E n \in WsNames : UpdateLastActiveIssue(n)
  \/ \E k \in 1..MaxInFlight : WriteLands(k)

SpecOverlap == Init /\ [][OverlapNext]_vars

\* ------------------------------------- both stores, writes that can fail
\* No operation of the two stores in this specification reads the clock
\* for anything but the timestamps it records.
WriteFailNext ==
  \/ (~wmInited /\ WmInit)
  \/ \E n \in SrvWsNames : CreateWorkspace(n, TwoRegPath)
  \/ \E n \in SrvWsNames, e \in WriteErrors :
       CreateWorkspaceWriteFails(n, TwoRegPath, e)
  \/ (~gmInited /\ GmInit)
  \/ \E n \in GoalNames : CreateGoal(n, <<>>)
  \/ \E n \in GoalNames : SetActiveGoal(n)
  \/ \E n \in GoalNames, e \in WriteErrors : SetActiveGoalWriteFails(n, e)

SpecWriteFail == Init /\ [][WriteFailNext]_vars

\* ------------------------------ goal store, calls in steps and crashes
PartialNext ==
  \/ GmInit
  \/ \E c \in CallIds, name \in GoalNames, plan \in PlanTexts :
       CreateGoalBegin(c, name, plan)
  \/ \E c \in CallIds :
       c \in DOMAIN inflight /\ Running(c) /\ CreateGoalMkdir(c)
  \/ \E c \in CallIds :
       c \in DOMAIN inflight /\ Running(c) /\ CreateGoalMkdirLearnings(c)
  \/ \E c \in CallIds :
       c \in DOMAIN inflight /\ Running(c) /\ CreateGoalWriteFile(c)
  \/ Crash
  \/ \E name \in GoalNames : GetPlanCall(name)
  \/ \E name \in GoalNames, plan \in PlanTexts : UpdatePlan(name, plan)
  \/ \E l \in Learnings, g \in Scopes : AddLearning(l, g)

SpecPartial == Init /\ [][PartialNext]_vars

\* ------------------------------------- learnings of three scopes
\* The workspace level and the two goals.
AllScopes == {<<>>} \cup {<<g>> : g \in GoalNames}

\* One learning for each of two timestamps.
ScopeInputs == {Learning(TsJan, "t1"), Learning(TsJun, "t2")}

ScopesNext ==
  \/ GmInit
  \/ \E n \in GoalNames : CreateGoal(n, <<>>)
  \/ \E n \in GoalNames, x \in LearnPlans : UpdatePlan(n, x)
  \/ \E n \in GoalNames : SetActiveGoal(n)
  \/ \E l \in ScopeInputs, g \in AllScopes : AddLearning(l, g)

SpecScopes == Init /\ [][ScopesNext]_vars

\* ------------------------------------- learnings, any timestamp string
\* Learning.timestamp is a string and addLearning does not validate it.
\* TsJan and TsJanLate are in the form toISOString() gives; the other two
\* are strings a caller can pass.
TsJanLate ==
  <<"2", "0", "2", "4", "-", "0", "1", "-", "0", "1", "T",
    "0", "0", ":", "0", "0", ":", "0", "0", ".", "9", "9", "9", "Z">>
TsJanUnderscores ==
  <<"2", "0", "2", "4", "-", "0", "1", "-", "0", "1", "T",
    "0", "0", "_", "0", "0", "_", "0", "0", "_", "0", "0", "0", "Z">>
TsJanColons ==
  <<"2", "0", "2", "4", "-", "0", "1", "-", "0", "1", "T",
    "0", "0", ":", "0", "0", ":", "0", "0", ":", "0", "0", "0", "Z">>

\* One learning for each timestamp string; the title tells them apart.
AnyInputs ==
  {Learning(TsJan, "jan"), Learning(TsJanLate, "late"),
   Learning(TsJanUnderscores, "underscores"), Learning(TsJanColons, "colons")}

Digits == {"0", "1", "2", "3", "4", "5", "6", "7", "8", "9"}

\* ts has the form YYYY-MM-DDTHH:mm:ss.sssZ that new Date().toISOString()
\* returns.
Canonical(ts) ==
  /\ Len(ts) = 24
  /\ \A i \in 1..24 :
       ts[i] \in (CASE i \in {5, 8} -> {"-"}
                    [] i = 11 -> {"T"}
                    [] i \in {14, 17} -> {":"}
                    [] i = 20 -> {"."}
                    [] i = 24 -> {"Z"}
                    [] OTHER -> Digits)

AnyTimestampNext ==
  \/ GmInit
  \/ \E n \in LearnGoalNames : CreateGoal(n, <<>>)
  \/ \E l \in AnyInputs, g \in LearnScopes : AddLearning(l, g)
  \/ \E l \in AnyInputs, g \in LearnScopes :
       GetLearningCall(l.timestamp, g)

SpecAnyTimestamp == Init /\ [][AnyTimestampNext]_vars

\* ------------------------------------------------------- registry claims

\* Positions of the workspaces called name in a list.
IndicesOf(ws, name) == {i \in 1..Len(ws) : ws[i].name = name}

\* C5: no two registered workspaces have the same name, and createWorkspace
\* on a registered name fails with AlreadyExists and leaves getAll() with
\* exactly one entry of that name, carrying the path it had before.
C5_UniqueNames ==
  /\ [](\A i, j \in 1..Len(workspaces) :
          workspaces[i].name = workspaces[j].name => i = j)
  /\ [][(last'.op = "createWorkspace" /\ HasWorkspace(workspaces, last'.name))
        => /\ last'.res = "AlreadyExists"
           /\ LET before == GetAll(workspaces)
                  after == GetAll(workspaces')
                  n == last'.name
              IN /\ Cardinality(IndicesOf(after, n)) = 1
                 /\ \A i \in IndicesOf(after, n), j \in IndicesOf(before, n) :
                      after[i].path = before[j].path]_vars

\* A duplicate create with a path other than the registered one was refused.
C5_Witness ==
  /\ last.op = "createWorkspace"
  /\ last.res = "AlreadyExists"
  /\ \E i \in 1..Len(workspaces) :
       workspaces[i].name = last.name /\ workspaces[i].path # last.path

\* C6: a fresh instance initialised on the same store lists the same
\* workspaces, with the same name, path and last_active, as the instance
\* that made the create and touch calls.
C6_RegistryRestart ==
  wmInited => GetAll(LoadWorkspaces(wsFile)) = GetAll(workspaces)

\* Two workspaces with different last_active after a successful touch.
C6_Witness ==
  /\ last.op = "updateLastActive"
  /\ last.res = "ok"
  /\ Len(workspaces) = 2
  /\ workspaces[1].last_active # workspaces[2].last_active

\* l lists every element of ws exactly once, by last_active descending,
\* equal last_active in the order of ws.
IsStableDescOf(l, ws) ==
  /\ Len(l) = Len(ws)
  /\ \E f \in [1..Len(l) -> 1..Len(ws)] :
       /\ \A i, j \in 1..Len(l) : f[i] = f[j] => i = j
       /\ \A i \in 1..Len(l) : l[i] = ws[f[i]]
       /\ \A i, j \in 1..Len(l) :
            i < j => \/ l[i].last_active > l[j].last_active
                     \/ l[i].last_active = l[j].last_active /\ f[i] < f[j]

\* C8: getAll() returns every registered workspace exactly once, ordered
\* by last_active descending with ties in insertion order, and changes
\* neither the stored list nor the file.
C8_ListOrder ==
  [][last'.op = "getAll"
     => /\ IsStableDescOf(last'.list, workspaces)
        /\ workspaces' = workspaces
        /\ wsFile' = wsFile
        /\ wsWrites' = wsWrites]_vars

\* A listing that had to reorder and that holds a tie.
C8_Witness ==
  /\ last.op = "getAll"
  /\ Len(workspaces) = 3
  /\ last.list # workspaces
  /\ \E i, j \in 1..3 :
       i # j /\ workspaces[i].last_active = workspaces[j].last_active

\* C9: updateLastActive on an unregistered name fails with NotFound and
\* changes neither the list in memory nor workspaces.json, which is not
\* rewritten.
C9_TouchMissing ==
  [][(last'.op = "updateLastActive" /\ ~HasWorkspace(workspaces, last'.name))
     => /\ last'.res = "NotFound"
        /\ workspaces' = workspaces
        /\ wsFile' = wsFile
        /\ wsWrites' = wsWrites]_vars

\* A failed touch on a registry that holds other workspaces.
C9_Witness ==
  /\ last.op = "updateLastActive"
  /\ last.res = "NotFound"
  /\ Len(workspaces) >= 1

\* C10: no call removes a registered workspace or changes its name or
\* path, in memory or in the file; a successful updateLastActive(name)
\* changes only the last_active of that workspace, to a value not earlier
\* than before, keeps every other entry and the length, and returns the
\* entry as stored.
C10_TouchFrame ==
  [][/\ (wmInited /\ wmInited')
        => /\ Len(workspaces') >= Len(workspaces)
           /\ \A i \in 1..Len(workspaces) :
                /\ workspaces'[i].name = workspaces[i].name
                /\ workspaces'[i].path = workspaces[i].path
     /\ wsFile # <<>>
        => /\ wsFile' # <<>>
           /\ Len(wsFile'[1]) >= Len(wsFile[1])
           /\ \A i \in 1..Len(wsFile[1]) :
                /\ wsFile'[1][i][1] = wsFile[1][i][1]
                /\ wsFile'[1][i][2] = wsFile[1][i][2]
     /\ (last'.op = "updateLastActive" /\ last'.res = "ok")
        => /\ Len(workspaces') = Len(workspaces)
           /\ \A i \in 1..Len(workspaces) :
                IF workspaces[i].name = last'.name
                THEN /\ workspaces'[i].last_active >= workspaces[i].last_active
                     /\ workspaces'[i].last_active = now
                     /\ last'.ret = workspaces'[i]
                ELSE workspaces'[i] = workspaces[i]]_vars

\* A successful touch of the first of several workspaces that moved its
\* last_active forward.
C10_Witness ==
  /\ last.op = "updateLastActive"
  /\ last.res = "ok"
  /\ Len(workspaces) >= 2
  /\ workspaces[1].name = last.name
  /\ workspaces[1].last_active > workspaces[2].last_active

\* ----------------------------------------------------- goal store claims

\* C1: when createGoal(name, x) succeeds, for the empty plan as for any
\* other, plan.md reads x, and a getPlan(name) made next returns x.
C1_CreateThenGetPlan ==
  [][/\ (last'.op = "createGoal" /\ last'.res = "ok")
        => /\ ~ExistsSync(fs, GoalDir(last'.name))
           /\ GetPlan(fs', last'.name) = <<last'.plan>>
     /\ (/\ last.op = "createGoal" /\ last.res = "ok"
         /\ last'.op = "getPlan" /\ last'.name = last.name)
        => last'.ret = <<last.plan>>]_vars

\* getPlan returned the empty plan right after the goal was created
\* with it.
C1_Witness ==
  /\ last.op = "getPlan"
  /\ last.ret = <<(<<>>)>>
  /\ \A n \in GoalNames \ {last.name} : GetPlan(fs, n) = <<>>

\* C2: createGoal on a name whose goal directory exists fails with
\* AlreadyExists and changes nothing: every plan reads as before, and the
\* goal list, the learnings, the active goal and state.json are unchanged.
C2_CreateTwice ==
  [][(last'.op = "createGoal" /\ ExistsSync(fs, GoalDir(last'.name)))
     => /\ last'.res = "AlreadyExists"
        /\ \A n \in GoalNames : GetPlan(fs', n) = GetPlan(fs, n)
        /\ ListGoals(fs') = ListGoals(fs)
        /\ fs'.learnings = fs.learnings
        /\ GetActiveGoal(gmState') = GetActiveGoal(gmState)
        /\ fs' = fs
        /\ stateWrites' = stateWrites]_vars

\* A refused second create whose plan differs from the stored one, on a
\* store that holds a learning and an active goal.
C2_Witness ==
  /\ last.op = "createGoal"
  /\ last.res = "AlreadyExists"
  /\ GetPlan(fs, last.name) # <<last.plan>>
  /\ DOMAIN fs.learnings # {}
  /\ GetActiveGoal(gmState) # <<>>

\* a is null or the name of a listed goal.
ActiveGoalListed(f, a) == a = <<>> \/ a[1] \in ListGoals(f)

\* C3: the active goal in memory, and the active_goal in state.json when
\* the file exists, is null or a member of listGoals().
C3_ActiveGoalExists ==
  /\ ActiveGoalListed(fs, GetActiveGoal(gmState))
  /\ fs.state # <<>> => ActiveGoalListed(fs, ParseState(fs.state[1]).active_goal)

\* An active goal is set in memory and in state.json.
C3_Witness ==
  /\ GetActiveGoal(gmState) # <<>>
  /\ fs.state # <<>>
  /\ ParseState(fs.state[1]).active_goal = GetActiveGoal(gmState)
  /\ Cardinality(ListGoals(fs)) = 2

\* C4: setActiveGoal on a name without a goal directory fails with
\* NotFound; getActiveGoal() and the state in memory are as before and
\* state.json is not rewritten.
C4_SetActiveMissing ==
  [][(last'.op = "setActiveGoal" /\ ~ExistsSync(fs, GoalDir(last'.name)))
     => /\ last'.res = "NotFound"
        /\ GetActiveGoal(gmState') = GetActiveGoal(gmState)
        /\ gmState' = gmState
        /\ fs'.state = fs.state
        /\ stateWrites' = stateWrites]_vars

\* A refused setActiveGoal while another goal is active, at a later instant
\* than the one state.json was written at.
C4_Witness ==
  /\ last.op = "setActiveGoal"
  /\ last.res = "NotFound"
  /\ GetActiveGoal(gmState) # <<>>
  /\ gmState.last_updated < now

\* C7: once createGoal(G, T) and then setActiveGoal(G) have succeeded, a
\* fresh instance initialised on the workspace reads T with getPlan(G),
\* has G as active goal and lists G; and init() of any instance on a
\* state.json with an active goal loads that goal, never null, and leaves
\* the plans and state.json as they are.
C7_GoalStoreRestart ==
  [][/\ (/\ last.op = "createGoal" /\ last.res = "ok"
         /\ last'.op = "setActiveGoal" /\ last'.name = last.name)
        => /\ last'.res = "ok"
           /\ LET st == LoadedState(fs', NewGoalState(now))
                  f == InitedFs(fs', NewGoalState(now))
                  G == last.name
              IN /\ GetPlan(f, G) = <<last.plan>>
                 /\ GetActiveGoal(st) = <<G>>
                 /\ G \in ListGoals(f)
     /\ (/\ last'.op = "gmInit"
         /\ fs.state # <<>>
         /\ ParseState(fs.state[1]).active_goal # <<>>)
        => /\ GetActiveGoal(gmState') = ParseState(fs.state[1]).active_goal
           /\ fs' = fs]_vars

\* A fresh instance was initialised on a workspace with an active goal
\* whose plan is not empty.
C7_Witness ==
  /\ last.op = "gmInit"
  /\ last.fresh
  /\ GetActiveGoal(gmState) # <<>>
  /\ GetPlan(fs, GetActiveGoal(gmState)[1]) \notin {<<>>, <<(<<>>)>>}

\* --------------------------------------------------------- server claims

\* The calls that activate a workspace when they succeed.
Activating == {"createWorkspace", "updateLastActive", "init-workspace"}
\* The tools that work on the active workspace.
GoalTools == {"create-goal", "set-active-goal"}

\* A goal tool's step worked on the hierarchy at path p and on no other.
OperatedOn(p) ==
  /\ last'.res # "NoActiveWorkspace"
  /\ \A q \in WsPaths \ {p} : wsFs'[q] = wsFs[q]
  /\ ExistsSync(wsFs'[p], StatePath)
  /\ (last'.op = "create-goal" /\ last'.res = "ok")
       => /\ ~ExistsSync(wsFs[p], GoalDir(last'.name))
          /\ GetPlan(wsFs'[p], last'.name) = <<last'.plan>>
  /\ (last'.op = "set-active-goal" /\ last'.res = "ok")
       => ParseState(wsFs'[p].state[1]).active_goal = <<last'.name>>

\* C11: getActiveWorkspace() is the workspace of the latest successful
\* create or touch on this instance, as registered, and none on an instance
\* on which none succeeded; a create-goal or set-active-goal request works
\* on the path of that workspace and on no other (so right after
\* init-workspace(W), on W's path), and with none active it fails with
\* "No workspace is currently active" and changes no hierarchy.
C11_ActiveWorkspace ==
  /\ [](GetActiveWorkspace(activeWorkspace) # <<>>
         => \E i \in 1..Len(workspaces) :
              workspaces[i] = GetActiveWorkspace(activeWorkspace)[1])
  /\ [][/\ (last'.op \in Activating /\ last'.res = "ok")
           => /\ GetActiveWorkspace(activeWorkspace') # <<>>
              /\ GetActiveWorkspace(activeWorkspace')[1].name = last'.name
        /\ ~(last'.op \in Activating /\ last'.res = "ok")
           => GetActiveWorkspace(activeWorkspace') =
                IF wmInited' \/ ~wmInited
                THEN GetActiveWorkspace(activeWorkspace) ELSE <<>>
        /\ (last'.op \in GoalTools /\ activeWorkspace = <<>>)
           => /\ last'.res = "NoActiveWorkspace"
              /\ wsFs' = wsFs
        /\ (last'.op \in GoalTools /\ activeWorkspace # <<>>)
           => OperatedOn(activeWorkspace[1].path)
        /\ (/\ last.op = "init-workspace" /\ last.res = "ok"
            /\ last'.op \in GoalTools)
           => OperatedOn(workspaces[FindWorkspace(workspaces, last.name)].path)
       ]_vars

\* create-goal succeeded on the active workspace while a workspace at
\* another path heads the listing.
C11_Witness ==
  /\ last.op = "create-goal"
  /\ last.res = "ok"
  /\ Len(workspaces) = 2
  /\ activeWorkspace # <<>>
  /\ GetAll(workspaces)[1].path # activeWorkspace[1].path
  /\ GetPlan(wsFs[activeWorkspace[1].path], last.name) = <<last.plan>>

\* ------------------------------------------------------- summary claims

\* Plan s starts with the heading line "# Title", the title being the
\* characters 3..t, followed by a blank line and a paragraph.
HeadingShape(s, t) ==
  /\ t >= 3
  /\ t + 3 <= Len(s)
  /\ s[1] = "#"
  /\ s[2] = " "
  /\ ~IsSpace(s[3])
  /\ \A i \in 3..t : s[i] # "\n"
  /\ s[t + 1] = "\n"
  /\ s[t + 2] = "\n"
  /\ s[t + 3] # "\n"

\* d is the length of the text r has before its first blank line, or the
\* length of r when it has none.
UpToBlankLine(r, d) ==
  /\ d \in 1..Len(r)
  /\ \/ d = Len(r)
     \/ d + 2 <= Len(r) /\ r[d + 1] = "\n" /\ r[d + 2] = "\n"
  /\ \A i \in 1..(d - 1) :
       ~(i + 2 <= Len(r) /\ r[i + 1] = "\n" /\ r[i + 2] = "\n")

\* C12: for a stored plan "# Title", blank line, paragraph, ...,
\* getGoalDescription returns Title, a blank line and the text after the
\* heading's blank line up to its first blank line or the end of the plan,
\* and nothing more.
C12_DescriptionOfHeading ==
  [][last'.op = "getGoalDescription" /\ GetPlan(fs, last'.name) # <<>>
     => LET s == GetPlan(fs, last'.name)[1] IN
          \A t \in 3..Len(s) :
            HeadingShape(s, t)
              => LET r == SubSeq(s, t + 3, Len(s)) IN
                   \E d \in 1..Len(r) :
                     /\ UpToBlankLine(r, d)
                     /\ last'.ret = <<SubSeq(s, 3, t) \o <<"\n", "\n">>
                                        \o SubSeq(r, 1, d)>>]_vars

\* A description was returned for a plan whose first paragraph ends with a
\* blank line, which the description leaves out.
C12_Witness ==
  /\ last.op = "getGoalDescription"
  /\ GetPlan(fs, last.name) # <<>>
  /\ \E t \in 3..Len(GetPlan(fs, last.name)[1]) :
       HeadingShape(GetPlan(fs, last.name)[1], t)
  /\ last.ret # <<>>
  /\ Len(GetPlan(fs, last.name)[1]) >= Len(last.ret[1]) + 4

\* Plan s begins with the single-level heading marker "# ".
BeginsWithHeading(s) == Len(s) >= 2 /\ s[1] = "#" /\ s[2] = " "

\* C13: getGoalDescription returns absent, without raising, when the goal
\* has no plan, when the plan is empty and when the plan does not begin
\* with "# ".
C13_DescriptionAbsent ==
  [][(/\ last'.op = "getGoalDescription"
      /\ \/ GetPlan(fs, last'.name) = <<>>
         \/ GetPlan(fs, last'.name) = <<(<<>>)>>
         \/ ~BeginsWithHeading(GetPlan(fs, last'.name)[1]))
     => /\ last'.res = "ok"
        /\ last'.ret = <<>>]_vars

\* ------------------------------------------------------ learning claims

\* The characters of timestamps in code unit order, and the order
\* localeCompare gives two timestamps of the same length written in them.
TsChars ==
  <<"-", ".", "0", "1", "2", "3", "4", "5", "6", "7", "8", "9", ":",
    "T", "Z", "_">>
TsRank(c) == CHOOSE i \in 1..Len(TsChars) : TsChars[i] = c
TsLess(a, b) ==
  \E k \in 1..Len(a) :
    /\ \A i \in 1..(k - 1) : a[i] = b[i]
    /\ TsRank(a[k]) < TsRank(b[k])

\* Learning l is stored in scope g of hierarchy f.
StoredIn(f, l, g) ==
  /\ ExistsLearning(f, LearningDir(g), LearningFilename(l.timestamp))
  /\ f.learnings[<<LearningDir(g), LearningFilename(l.timestamp)>>]
       = FormatLearningContent(l)

\* The learning files of scope g in hierarchy f.
FilesOf(f, g) == {k \in DOMAIN f.learnings : k[1] = LearningDir(g)}

\* C14: getLearnings(scope) returns the learnings of the scope by timestamp
\* descending: of two learnings stored in the scope, the one with the
\* later timestamp comes first.
C14_LearningsOrder ==
  [][last'.op = "getLearnings"
     => \A l1, l2 \in LearnInputs :
          (/\ StoredIn(fs, l1, last'.goalName)
           /\ StoredIn(fs, l2, last'.goalName)
           /\ TsLess(l1.timestamp, l2.timestamp))
          => /\ last'.res = "ok"
             /\ \E i, j \in 1..Len(last'.ret) :
                  /\ i < j
                  /\ last'.ret[i].timestamp = l2.timestamp
                  /\ last'.ret[j].timestamp = l1.timestamp]_vars

\* C15: getLearnings(scope) returns one entry for every learning stored in
\* the scope, with its timestamp and its document, and nothing else; it
\* returns the empty list, not an error, when the scope's directory is
\* missing or holds no learning.
C15_LearningsContent ==
  [][last'.op = "getLearnings"
     => /\ last'.res = "ok"
        /\ Len(last'.ret) = Cardinality(FilesOf(fs, last'.goalName))
        /\ \A l \in LearnInputs :
             StoredIn(fs, l, last'.goalName)
             => \E i \in 1..Len(last'.ret) :
                  last'.ret[i] = [timestamp |-> l.timestamp,
                                  content |-> FormatLearningContent(l)]]_vars

\* C16: addLearning with a timestamp whose file exists in the scope fails
\* with AlreadyExists and leaves every stored learning, that one included,
\* as it is.
C16_DuplicateLearning ==
  [][(/\ last'.op = "addLearning"
      /\ ExistsLearning(fs, LearningDir(last'.goalName),
                        LearningFilename(last'.learning.timestamp)))
     => /\ last'.res = "AlreadyExists"
        /\ fs'.learnings = fs.learnings]_vars

\* A refused addLearning whose document differs from the stored one.
C16_Witness ==
  /\ last.op = "addLearning"
  /\ last.res = "AlreadyExists"
  /\ ~StoredIn(fs, last.learning, last.goalName)
  /\ ExistsLearning(fs, LearningDir(last.goalName),
                    LearningFilename(last.learning.timestamp))

\* C17: addLearning(learning, goalName) for a goal without a directory
\* fails with NotFound and creates nothing: the directories, the learning
\* files, listGoals() and the whole hierarchy are as before.
C17_LearningMissingGoal ==
  [][(/\ last'.op = "addLearning"
      /\ last'.goalName # <<>>
      /\ ~ExistsSync(fs, GoalDir(last'.goalName[1])))
     => /\ last'.res = "NotFound"
        /\ fs'.dirs = fs.dirs
        /\ fs'.learnings = fs.learnings
        /\ ListGoals(fs') = ListGoals(fs)
        /\ fs' = fs]_vars

\* A refused goal-scoped addLearning on an initialised workspace that holds
\* a workspace-level learning.
C17_Witness ==
  /\ last.op = "addLearning"
  /\ last.res = "NotFound"
  /\ gmInited
  /\ FilesOf(fs, <<>>) # {}
  /\ ListGoals(fs) = {}

\* C18: getLearning(timestamp, scope) made right after the addLearning
\* that succeeded for that timestamp and scope returns the document of
\* that learning; at any time it returns the document stored for the
\* timestamp in the scope, a learning file appears only by a successful
\* addLearning, for its own timestamp and scope and with its document, and
\* getLearning fails with NotFound when the scope holds none for the
\* timestamp, the scope of a missing goal included.
C18_GetLearning ==
  [][/\ (/\ last.op = "addLearning" /\ last.res = "ok"
         /\ last'.op = "getLearning"
         /\ last'.timestamp = last.learning.timestamp
         /\ last'.goalName = last.goalName)
        => /\ last'.res = "ok"
           /\ last'.ret = FormatLearningContent(last.learning)
     /\ \A k \in DOMAIN fs'.learnings \ DOMAIN fs.learnings :
          /\ last'.op = "addLearning"
          /\ last'.res = "ok"
          /\ k = <<LearningDir(last'.goalName),
                   LearningFilename(last'.learning.timestamp)>>
          /\ fs'.learnings[k] = FormatLearningContent(last'.learning)
     /\ last'.op = "getLearning"
        => LET k == <<LearningDir(last'.goalName),
                      LearningFilename(last'.timestamp)>>
           IN IF k \in DOMAIN fs.learnings
              THEN last'.res = "ok" /\ last'.ret = fs.learnings[k]
              ELSE last'.res = "NotFound"]_vars

\* getLearning returned a goal's learning while the workspace level holds
\* another document for the same timestamp.
C18_Witness ==
  /\ last.op = "getLearning"
  /\ last.res = "ok"
  /\ last.goalName # <<>>
  /\ ExistsLearning(fs, LearningDir(<<>>), LearningFilename(last.timestamp))
  /\ fs.learnings[<<LearningDir(<<>>), LearningFilename(last.timestamp)>>]
       # last.ret

\* C19: a stored learning never changes: whatever call is made (init,
\* createGoal, updatePlan, setActiveGoal, addLearning or a read), every
\* learning file is still there with the same document, so every later
\* getLearning for it returns that document.
C19_LearningImmutable ==
  [][/\ \A k \in DOMAIN fs.learnings :
          /\ k \in DOMAIN fs'.learnings
          /\ fs'.learnings[k] = fs.learnings[k]
     /\ \A t \in LearnTimestamps, g \in LearnScopes :
          (/\ ExistsLearning(fs, LearningDir(g), LearningFilename(t))
           /\ last'.op = "getLearning"
           /\ last'.timestamp = t
           /\ last'.goalName = g)
          => /\ last'.res = "ok"
             /\ last'.ret = fs.learnings[<<LearningDir(g),
                                           LearningFilename(t)>>]]_vars

\* getLearning returned a learning's document on a fresh instance, after a
\* second addLearning for its timestamp, with another document, was
\* refused and a goal was made active.
C19_Witness ==
  /\ last.op = "getLearning"
  /\ last.res = "ok"
  /\ last.ret = FormatLearningContent(Learning(TsJan, "t1"))
  /\ ~gmInited
  /\ fs.state # <<>>
  /\ GetActiveGoal(ParseState(fs.state[1])) # <<>>
  /\ Cardinality(DOMAIN fs.learnings) >= 3

\* C20: for a timestamp YYYY-MM-DDTHH:mm:ss.sssZ the file name is the
\* timestamp with "_" at the offsets 13, 16 and 19 (the two ":" and the
\* "."), every other character kept, followed by ".md", and decoding the
\* file name gives the timestamp back.
C20_TimestampRoundTrip ==
  last.op = "parseTimestampFromFilename"
    => /\ Len(last.timestamp) = 24
       /\ Len(last.filename) = 27
       /\ SubSeq(last.filename, 25, 27) = <<".", "m", "d">>
       /\ \A i \in 1..24 :
            IF i - 1 \in {13, 16, 19}
            THEN /\ last.timestamp[i] = (IF i - 1 = 19 THEN "." ELSE ":")
                 /\ last.filename[i] = "_"
            ELSE last.filename[i] = last.timestamp[i]
       /\ last.ret = last.timestamp

\* A file name was decoded whose timestamp has only non-zero fields.
C20_Witness ==
  /\ last.op = "parseTimestampFromFilename"
  /\ last.timestamp =
       IsoTimestamp(<<"1", "9", "9", "9">>, <<"1", "2">>, <<"3", "1">>,
                    <<"2", "3">>, <<"5", "9">>, <<"5", "9">>,
                    <<"9", "9", "9">>)
  /\ last.ret = last.timestamp

\* ------------------------------------------------- plan and list claims

\* C21: getPlan(name) for a goal without a directory returns absent, not
\* an error, and changes nothing; updatePlan(name, content) for such a goal
\* fails with NotFound and makes no goal directory and no plan file.
C21_PlanOfMissingGoal ==
  [][/\ (last'.op = "getPlan" /\ ~ExistsSync(fs, GoalDir(last'.name)))
        => /\ last'.res = "ok"
           /\ last'.ret = <<>>
           /\ fs' = fs
     /\ (last'.op = "updatePlan" /\ ~ExistsSync(fs, GoalDir(last'.name)))
        => /\ last'.res = "NotFound"
           /\ ~ExistsSync(fs', GoalDir(last'.name))
           /\ ~ExistsSync(fs', PlanPath(last'.name))
           /\ last'.name \notin ListGoals(fs')
           /\ fs' = fs]_vars

\* A refused updatePlan, with a plan that is not empty, on a workspace
\* that holds another goal.
C21_Witness ==
  /\ last.op = "updatePlan"
  /\ last.res = "NotFound"
  /\ last.plan # <<>>
  /\ ListGoals(fs) # {}

\* C22: updatePlan(name, content) on an existing goal succeeds, after it
\* getPlan(name) is content, and the plans of the other goals, the
\* learnings, the directories, the goal list, the active goal and
\* state.json are as before.
C22_UpdatePlanFrame ==
  [][(last'.op = "updatePlan" /\ ExistsSync(fs, GoalDir(last'.name)))
     => /\ last'.res = "ok"
        /\ GetPlan(fs', last'.name) = <<last'.plan>>
        /\ \A n \in GoalNames \ {last'.name} :
             GetPlan(fs', n) = GetPlan(fs, n)
        /\ fs'.learnings = fs.learnings
        /\ fs'.dirs = fs.dirs
        /\ ListGoals(fs') = ListGoals(fs)
        /\ GetActiveGoal(gmState') = GetActiveGoal(gmState)
        /\ gmState' = gmState
        /\ fs'.state = fs.state
        /\ stateWrites' = stateWrites]_vars

\* updatePlan replaced the plan of the active goal by a shorter one while
\* the other goal has a plan and a learning is stored.
C22_Witness ==
  /\ last.op = "updatePlan"
  /\ last.res = "ok"
  /\ last.plan = <<>>
  /\ GetActiveGoal(gmState) = <<last.name>>
  /\ \E n \in GoalNames \ {last.name} : GetPlan(fs, n) \notin {<<>>, <<(<<>>)>>}
  /\ DOMAIN fs.learnings # {}

\* C23: init() on a workspace without a .goals hierarchy leaves
\* getActiveGoal() null and listGoals() empty, makes the hierarchy, and
\* writes state.json with active_goal null.
C23_InitEmpty ==
  [][(last'.op = "gmInit" /\ ~ExistsSync(fs, <<>>))
     => /\ last'.res = "ok"
        /\ GetActiveGoal(gmState') = <<>>
        /\ ListGoals(fs') = {}
        /\ fs'.dirs = {<<>>, <<"goals">>, <<"learnings">>}
        /\ ExistsSync(fs', StatePath)
        /\ ParseState(fs'.state[1]).active_goal = <<>>
        /\ stateWrites' = stateWrites + 1]_vars

\* init() ran on a workspace without a hierarchy, at a later instant than
\* the instance was made.
C23_Witness ==
  /\ last.op = "gmInit"
  /\ fs.dirs = {<<>>, <<"goals">>, <<"learnings">>}
  /\ stateWrites = 1
  /\ gmState.last_updated < now

\* C24: listGoals() is empty on a new workspace, gains exactly the name of
\* every createGoal that succeeds, at that step, and is changed by no
\* other call: it is the set of names createGoal succeeded for.
C24_ListGoalsIsCreated ==
  /\ [](ListGoals(fs) \subseteq GoalNames)
  /\ [](~ExistsSync(fs, <<"goals">>) => ListGoals(fs) = {})
  /\ [][ListGoals(fs') =
          IF last'.op = "createGoal" /\ last'.res = "ok"
          THEN ListGoals(fs) \cup {last'.name}
          ELSE ListGoals(fs)]_vars

\* A second goal was created on a workspace that holds learnings.
C24_Witness ==
  /\ last.op = "createGoal"
  /\ last.res = "ok"
  /\ ListGoals(fs) = GoalNames
  /\ DOMAIN fs.learnings # {}

\* C25: getGoalSummaries() returns, for the names listGoals() gave it and
\* in their order, one pair of the name and getGoalDescription(name); the
\* names are those of the goal directories, each once, and a goal without
\* a description is kept with an absent one.
C25_SummariesPerGoal ==
  [][last'.op = "getGoalSummaries"
     => /\ last'.res = "ok"
        /\ {last'.goals[i] : i \in 1..Len(last'.goals)} = ListGoals(fs)
        /\ Len(last'.goals) = Cardinality(ListGoals(fs))
        /\ Len(last'.ret) = Len(last'.goals)
        /\ \A i \in 1..Len(last'.goals) :
             /\ last'.ret[i].name = last'.goals[i]
             /\ last'.ret[i].description
                  = GetGoalDescription(fs, last'.goals[i])
        /\ fs' = fs]_vars

\* Summaries of two goals, the first without a description and the second
\* with one.
C25_Witness ==
  /\ last.op = "getGoalSummaries"
  /\ Len(last.ret) = 2
  /\ last.ret[1].description = <<>>
  /\ last.ret[2].description # <<>>

\* ------------------------------------------------- registry load claims

\* C26: init() on a store without workspaces.json leaves an empty list in
\* memory and writes a file holding the empty list; init() on a file that
\* cannot be loaded (malformed, or unreadable) fails with the error of the
\* load, and leaves the file, the write count and the list in memory as
\* they were.
C26_RegistryInit ==
  [][last'.op = "init" =>
       /\ wsFile = <<>> =>
            /\ last'.res = "ok"
            /\ workspaces' = <<>>
            /\ GetAll(workspaces') = <<>>
            /\ Len(wsFile') = 1
            /\ ParseStore(wsFile'[1]) = <<>>
            /\ wsWrites' = wsWrites + 1
       /\ Malformed(wsFile) => last'.res \in {"SyntaxError", "EACCES"}
       /\ last'.res # "ok" =>
            /\ wsFile # <<>>
            /\ last'.res \in {"SyntaxError", "EACCES"}
            /\ wsFile' = wsFile
            /\ wsWrites' = wsWrites
            /\ workspaces' = workspaces
            /\ wmInited' = wmInited]_vars

\* init() has just failed on a malformed file that holds a workspace.
C26_Witness ==
  /\ last.op = "init"
  /\ last.res = "SyntaxError"
  /\ Malformed(wsFile)
  /\ wsFile[1] # <<>>
  /\ ~wmInited

\* --------------------------------------------------- read failure claims

\* C27: no failure of a read is swallowed: when plan.md of an existing
\* goal cannot be read because of a storage error, getPlan and
\* getGoalDescription fail with that error and do not report the plan or
\* the summary as absent.
C27_ReadErrorSurfaced ==
  [][("fault" \in DOMAIN last' /\ last'.op \in {"getPlan", "getGoalDescription"})
       => /\ last'.res = last'.fault
          /\ "ret" \notin DOMAIN last']_vars

\* ------------------------------------------------ registry write claims

\* C28: after every successful createWorkspace and updateLastActive,
\* workspaces.json holds the complete list the instance has in memory:
\* as many workspaces, in the same order, each with the same name, path
\* and last_active.
C28_FileIsMemory ==
  [][(last'.op \in {"createWorkspace", "updateLastActive"} /\ last'.res = "ok")
       => /\ Len(wsFile') = 1
          /\ LET stored == ParseStore(wsFile'[1])
             IN /\ Len(stored) = Len(workspaces')
                /\ \A i \in 1..Len(stored) :
                     /\ stored[i].name = workspaces'[i].name
                     /\ stored[i].path = workspaces'[i].path
                     /\ stored[i].last_active = workspaces'[i].last_active]_vars

\* A touch of one of two registered workspaces has just been saved.
C28_Witness ==
  /\ last.op = "updateLastActive"
  /\ last.res = "ok"
  /\ Len(workspaces) = 2
  /\ Len(wsFile) = 1
  /\ Len(ParseStore(wsFile[1])) = 2

\* -------------------------------------------------- two-process claims

\* C29: when two instances on one store both mutate, every successful
\* create or touch leaves the file equal to the list of the instance that
\* made it: a workspace the file held that this instance did not have in
\* memory is gone from the file, and the call reports no error, not even
\* for a name the file already holds.
C29_LastWriterWins ==
  [][last'.op \in {"createWorkspace", "updateLastActive"} =>
       LET byPeer == "by" \in DOMAIN last'
           before == IF byPeer THEN peer.workspaces ELSE workspaces
           after  == IF byPeer THEN peer'.workspaces ELSE workspaces'
           old    == LoadWorkspaces(wsFile)
       IN /\ (last'.op = "createWorkspace" /\ ~HasWorkspace(before, last'.name))
               => last'.res = "ok"
          /\ (last'.op = "updateLastActive" /\ HasWorkspace(before, last'.name))
               => last'.res = "ok"
          /\ last'.res = "ok" =>
               /\ Len(wsFile') = 1
               /\ ParseStore(wsFile'[1]) = after
               /\ \A i \in 1..Len(old) :
                    (~HasWorkspace(before, old[i].name) /\ old[i].name # last'.name)
                      => ~HasWorkspace(ParseStore(wsFile'[1]), old[i].name)]_vars

\* The second instance wrote last: a workspace the first instance created
\* after the second one loaded is in the first one's memory and not in
\* the file.
C29_Witness ==
  /\ last.op \in {"createWorkspace", "updateLastActive"}
  /\ last.res = "ok"
  /\ "by" \in DOMAIN last
  /\ wmInited
  /\ \E i \in 1..Len(workspaces) :
       ~HasWorkspace(LoadWorkspaces(wsFile), workspaces[i].name)

\* -------------------------------------------------- overlapping calls

\* C30: of two createGoal calls for one name, overlapping or not, at
\* most one succeeds, the other fails with AlreadyExists, and the stored
\* plan is the plan of the call that succeeded.
C30_ConcurrentCreate ==
  \A c \in DOMAIN inflight : \A d \in DOMAIN inflight \ {c} :
    (/\ inflight[c].name = inflight[d].name
     /\ inflight[c].pc = "done"
     /\ inflight[d].pc = "done"
     /\ inflight[c].res = "ok")
      => /\ inflight[d].res = "AlreadyExists"
         /\ GetPlan(fs, inflight[c].name) = <<inflight[c].plan>>

\* ------------------------------------------------- early server claims

\* C31: a goal added through one instance of the early server persists
\* across a restart: every id that goals://{id} answered with a
\* description before the new instance was created is answered with the
\* same description by the new instance.
C31_GoalsPersist ==
  [][last'.op = "createServer" =>
       \A id \in EarlyIds :
         ReadGoal(earlyGoals, id) # <<>>
           => ReadGoal(earlyGoals', id) = ReadGoal(earlyGoals, id)]_vars

\* ------------------------------------------------------ start-up claims

\* C32: no handler runs against the registry before init() has
\* completed; no step of the load drops a workspace a handler has put in
\* memory; and a failed init() stops the process.
C32_InitBeforeHandlers ==
  [][/\ last'.op = "create-workspace" => initCall.pc = "done"
     /\ last'.op \in {"initAssign", "initSave"} =>
          \A i \in 1..Len(workspaces) :
            HasWorkspace(workspaces', workspaces[i].name)
     /\ (last'.op = "initAssign" /\ last'.res = "SyntaxError") =>
          initCall'.pc = "stopped"]_vars

\* ---------------------------------------------- overlapping write claims

\* C33: when the writes of two mutations of one instance have
\* overlapped, then once both have completed the file is a JSON document
\* equal to the list in memory, so it holds the effect of both.
C33_OverlappingWrites ==
  [][(last'.op = "writeFile" /\ last'.overlap /\ writes' = <<>>)
       => /\ ~Malformed(wsFile')
          /\ ParseStore(wsFile'[1]) = workspaces']_vars

\* ---------------------------------------------------- write failure claims

\* C34: a mutation whose write fails reports the error of the storage
\* and has no effect in memory: after a failed createWorkspace(name,
\* path) the list is as before and does not hold name; after a failed
\* setActiveGoal(name) the active goal is the one before the call.
C34_FailedWriteNoEffect ==
  [][/\ (last'.op = "createWorkspace" /\ "fault" \in DOMAIN last') =>
          /\ last'.res = last'.fault
          /\ ~HasWorkspace(workspaces', last'.name)
          /\ GetAll(workspaces') = GetAll(workspaces)
     /\ (last'.op = "setActiveGoal" /\ "fault" \in DOMAIN last') =>
          /\ last'.res = last'.fault
          /\ GetActiveGoal(gmState') = GetActiveGoal(gmState)]_vars

\* ------------------------------------------------- most recent first claims

\* C35 as stated: right after a successful create or touch of name, the
\* first element of getAll() is the workspace called name, whatever the
\* clock did.
C35_TouchedIsFirst ==
  [][(last'.op \in {"createWorkspace", "updateLastActive"} /\ last'.res = "ok")
       => GetAll(workspaces')[1].name = last'.name]_vars

\* C35, amended: right after a successful create or touch of name, the
\* workspace called name carries the current time and is preceded in
\* getAll() only by workspaces created or touched within the same clock
\* tick that stand before it in the stored list; it is the first element
\* when no other workspace carries the current time.
C35_TouchedIsFirstButTies ==
  [][(last'.op \in {"createWorkspace", "updateLastActive"} /\ last'.res = "ok")
       => LET l == GetAll(workspaces')
              i == FindWorkspace(l, last'.name)
              k == FindWorkspace(workspaces', last'.name)
          IN /\ l[i].last_active = now
             /\ \A j \in 1..(i - 1) :
                  /\ l[j].last_active = now
                  /\ FindWorkspace(workspaces', l[j].name) < k
             /\ (\A j \in 1..Len(workspaces') :
                   j # k => workspaces'[j].last_active # now) => i = 1]_vars

\* A workspace has just been created in the clock tick in which another
\* one was touched: it is second in getAll().
C35_Witness ==
  /\ last.op = "createWorkspace"
  /\ last.res = "ok"
  /\ Len(workspaces) >= 2
  /\ GetAll(workspaces)[1].name # last.name
  /\ GetAll(workspaces)[1].last_active = now
  /\ now > 0

\* ------------------------------------------------- listed goals claims

\* C36: a goal that listGoals() returns and that has no plan.md belongs
\* to a createGoal call that has not returned (it is in progress, or the
\* process died in the middle of it); when every call has returned,
\* getPlan of a listed goal is not absent and updatePlan of it succeeds.
C36_ListedGoalsHavePlans ==
  /\ [](\A n \in ListGoals(fs) :
          GetPlan(fs, n) = <<>> =>
            \E c \in DOMAIN inflight :
              inflight[c].name = n /\ inflight[c].pc # "done")
  /\ [][(/\ last'.op \in {"getPlan", "updatePlan"}
          /\ last'.name \in ListGoals(fs)
          /\ \A c \in DOMAIN inflight : inflight[c].pc = "done")
         => /\ last'.res = "ok"
            /\ last'.op = "getPlan" => last'.ret # <<>>]_vars

\* Both calls have returned, each created a goal, and the plan of one
\* of them has just been replaced.
C36_Witness ==
  /\ last.op = "updatePlan"
  /\ last.res = "ok"
  /\ DOMAIN inflight = CallIds
  /\ \A c \in CallIds : inflight[c].pc = "done" /\ inflight[c].res = "ok"
  /\ ListGoals(fs) = GoalNames
  /\ \A n \in GoalNames : GetPlan(fs, n) # <<>>

\* ------------------------------------------------- learning scope claims

\* C37: addLearning into one scope changes no stored learning, adds a
\* learning to that scope only, and leaves every plan, the goal list,
\* the active goal and state.json as they were; it succeeds whenever the
\* scope is usable and holds no learning for the timestamp, also when
\* another scope holds one for the same timestamp.
C37_ScopesIsolated ==
  [][last'.op = "addLearning" =>
       LET dir == LearningDir(last'.goalName)
           filename == LearningFilename(last'.learning.timestamp)
       IN /\ \A q \in DOMAIN fs.learnings :
               /\ q \in DOMAIN fs'.learnings
               /\ fs'.learnings[q] = fs.learnings[q]
          /\ \A q \in DOMAIN fs'.learnings \ DOMAIN fs.learnings :
               q = <<dir, filename>>
          /\ fs'.plans = fs.plans
          /\ fs'.state = fs.state
          /\ gmState' = gmState
          /\ ListGoals(fs') = ListGoals(fs)
          /\ (/\ last'.goalName # <<>> =>
                   ExistsSync(fs, GoalDir(last'.goalName[1]))
              /\ ~ExistsLearning(fs, dir, filename))
              => last'.res = "ok"]_vars

\* A learning has just been added to a goal while the workspace level
\* and the other goal hold a learning for the same timestamp, a goal is
\* active and a plan is not empty.
C37_Witness ==
  /\ last.op = "addLearning"
  /\ last.res = "ok"
  /\ last.goalName # <<>>
  /\ \A g \in AllScopes :
       ExistsLearning(fs, LearningDir(g),
                      LearningFilename(last.learning.timestamp))
  /\ GetActiveGoal(gmState) # <<>>
  /\ \E n \in GoalNames : GetPlan(fs, n) = <<<<"x">>>>

\* ------------------------------------------------- timestamp key claims

\* C38 as stated: addLearning fails with AlreadyExists only if a learning
\* with the identical timestamp string was added to the scope before,
\* and two different timestamp strings, in the canonical form or not,
\* have different file names.
C38_DistinctTimestampsDistinctFiles ==
  /\ [](\A l1 \in AnyInputs : \A l2 \in AnyInputs :
          l1.timestamp # l2.timestamp
            => LearningFilename(l1.timestamp) # LearningFilename(l2.timestamp))
  /\ [][(last'.op = "addLearning" /\ last'.res = "AlreadyExists")
         => StoredIn(fs, last'.learning, last'.goalName)]_vars

\* C38, amended: two different timestamps in the canonical form have
\* different file names; addLearning fails with AlreadyExists only if
\* the scope holds a learning that was added with a timestamp of the same
\* encoding, and, when that timestamp and the one given are both in the
\* canonical form, with the identical timestamp.
C38_CanonicalTimestampsDistinctFiles ==
  /\ [](\A l1 \in AnyInputs : \A l2 \in AnyInputs :
          (/\ Canonical(l1.timestamp)
           /\ Canonical(l2.timestamp)
           /\ l1.timestamp # l2.timestamp)
            => LearningFilename(l1.timestamp) # LearningFilename(l2.timestamp))
  /\ [][(last'.op = "addLearning" /\ last'.res = "AlreadyExists")
         => \E l \in AnyInputs :
              /\ StoredIn(fs, l, last'.goalName)
              /\ FormatTimestampForFilename(l.timestamp)
                   = FormatTimestampForFilename(last'.learning.timestamp)
              /\ (Canonical(l.timestamp)
                    /\ Canonical(last'.learning.timestamp))
                   => l = last'.learning]_vars

\* A canonical timestamp has just been refused in a scope that holds it
\* and another canonical timestamp of the same second.
C38_Witness ==
  /\ last.op = "addLearning"
  /\ last.res = "AlreadyExists"
  /\ Canonical(last.learning.timestamp)
  /\ StoredIn(fs, last.learning, last.goalName)
  /\ \E l \in AnyInputs :
       /\ l # last.learning
       /\ Canonical(l.timestamp)
       /\ StoredIn(fs, l, last.goalName)

====
